---- MODULE Spec2Model ----
(***************************************************************************)
(* State-machine model of the todo-api backend: the user table, the todo   *)
(* table, the JWT credentials held by clients, a clock, and one action per *)
(* HTTP handler of app/api/routes/auth.py and app/api/routes/todos.py.     *)
(* Every handler is modelled whole, FastAPI dependencies included          *)
(* (get_current_user, is_admin): it serves one request and leaves its      *)
(* response in `resp`, in flight until the client receives it; requests    *)
(* are served one at a time, except GET /auth/verify-email/{token}, which  *)
(* is also modelled as two worker threads that interleave their query and  *)
(* their commit (`verifying`).  cleanup_deleted_users of                   *)
(* app/config/background.py is a step of its own, and so is the passing of *)
(* its retention window; it is also modelled as its query and its commit   *)
(* with requests served in between (`sweeping`).  The router of            *)
(* app/api/routes/admin.py is not included by app/main.py: its endpoint    *)
(* answers 404.                                                            *)
(*                                                                         *)
(* Time is an integer clock whose tick is one day: an access token has     *)
(* expired when the next day begins, a verification token and a refresh    *)
(* token have not; lifetimes are counted in whole ticks.  Random values     *)
(* (secrets.token_urlsafe) are fresh numbers.                              *)
(***************************************************************************)
EXTENDS Integers, FiniteSets, Sequences, TLC

VARIABLES
    users,      \* table users: id -> row
    nextUserId, \* the serial of users.id
    todos,      \* table todos: id -> row
    nextTodoId, \* the serial of todos.id
    nextTok,    \* the next value secrets.token_urlsafe returns
    now,        \* datetime.utcnow()
    tokens,     \* the JWTs issued so far, held by clients
    resp,       \* the response in flight
    consumed,   \* history: the verification tokens that verified an account
    reverify,   \* history: the users whose email a user update changed and
                \* that were not verified, nor moved by an admin, since
    verifying,  \* the verification requests being served concurrently
    issuedTo,   \* history: the pairs of a JWT and the user it was issued to
    sweeping    \* the run of cleanup_deleted_users between its query and its commit

vars == <<users, nextUserId, todos, nextTodoId, nextTok, now, tokens, resp, consumed,
          reverify, verifying, issuedTo, sweeping>>

store == <<users, nextUserId, todos, nextTodoId>>

----------------------------------------------------------------------------
(* Bounds of the model *)

MaxUsers == 2
MaxTodos == 1
MaxTok == 2
MaxTime == 2
MaxTokens == 4

(* Request inputs *)
Emails == {"admin@example.com", "a@b.com", "c@d.com"}
(* the password every account is given, and the ones a login may try *)
NewPasswords == {"Str0ng!Pass"}
Passwords == NewPasswords \cup {"Wr0ng!Pass"}

----------------------------------------------------------------------------
(* Configuration: app/config/settings.py *)

ADMIN_EMAILS == {"admin@example.com"}

(* token lifetimes, in whole clock ticks of one day: 30 minutes have      *)
(* passed and 24 hours have not when the next day begins                   *)
ACCESS_TOKEN_EXPIRE_MINUTES == 0
REFRESH_TOKEN_EXPIRE_MINUTES == 1
EMAIL_VERIFICATION_EXPIRE_HOURS == 1

is_admin_email(email) == email \in ADMIN_EMAILS

----------------------------------------------------------------------------
(* Data model: app/models/user.py, app/models/todo.py *)

UserStatus == {"PENDING", "ACTIVE", "INACTIVE", "SUSPENDED", "BANNED", "DELETED"}

(* SQL NULL for a token, a timestamp, and "no row" for an id *)
NoToken == 0
NoTime == -1
NoId == 0

(* the values a status update may ask for: the six, and one that is none *)
StatusInputs == UserStatus \cup {"FROZEN"}

UserIds == 1..MaxUsers
TodoIds == 1..MaxTodos

(* rows of table users: the function's domain is the set of stored ids *)
UserByEmail(email) == {id \in DOMAIN users : users[id].email = email}
UserByToken(token) == {id \in DOMAIN users : users[id].email_verification_token = token}
PendingUsers == {id \in DOMAIN users : users[id].status = "PENDING"}

(* db.query(...).first(): the single row, or NoId *)
First(ids) == IF ids = {} THEN NoId ELSE CHOOSE id \in ids : \A o \in ids : id <= o

----------------------------------------------------------------------------
(* app/auth/utils.py *)

hash_password(password) == [scheme |-> "bcrypt", of |-> password]

verify_password(plain_password, hashed_password) ==
    hashed_password = hash_password(plain_password)

(* a signed JWT: the claims and whether the signature is this server's *)
create_token(sub, expires_delta, token_type) ==
    [sub |-> sub, exp |-> now + expires_delta, type |-> token_type, signed |-> TRUE]

create_access_token(sub, expires_delta) == create_token(sub, expires_delta, "access")

create_refresh_token(sub, expires_delta) == create_token(sub, expires_delta, "refresh")

(* a token not signed with SECRET_KEY *)
ForgedTokens == {[sub |-> "admin@example.com", exp |-> MaxTime + 1, type |-> "access", signed |-> FALSE]}

NoJwt == [sub |-> "", exp |-> NoTime, type |-> "none", signed |-> FALSE]

(* verify_token without the type comparison of lines 54-55 *)
verify_token_no_type(token, expected_type) ==
    IF ~token.signed THEN "Invalid token"
    ELSE IF token.exp < now THEN "Token has expired"
    ELSE "ok"

(* jwt.decode checks the signature, then exp; then the type tag is compared *)
verify_token(token, expected_type) ==
    IF ~token.signed THEN "Invalid token"
    ELSE IF token.exp < now THEN "Token has expired"
    ELSE IF token.type # expected_type THEN "Expected token type"
    ELSE "ok"

----------------------------------------------------------------------------
(* Responses.  One record shape for every handler:                         *)
(*   op      the handler                                                   *)
(*   code    the HTTP status (500: an exception no handler catches)        *)
(*   detail  the error detail, "" on success                               *)
(*   caller  the id get_current_user resolved, NoId when none              *)
(*   target  the id in the path, NoId when none                            *)
(*   cred    the JWT presented (bearer header or cookie), NoJwt when none  *)
(*   email   the email in the request body, "" when none                   *)
(*   password  the password of a login request, "" when none               *)
(*   status  the status a status update asks for, "" when none             *)
(*   notified  the number of status-change emails the request sent         *)
(*   token   the verification token in the path, NoToken when none         *)
(*   issued  the JWTs in the response                                      *)
(*   body    the ids of the rows the response returns                      *)
(*   email_sent  the "email_sent" flag of the response, FALSE when none    *)

NoResponse ==
    [op |-> "none", code |-> 0, detail |-> "", caller |-> NoId, target |-> NoId,
     cred |-> NoJwt, email |-> "", password |-> "", token |-> NoToken, issued |-> {},
     body |-> {},
     email_sent |-> FALSE, status |-> "", notified |-> 0]


(* the requests GET /auth/verify-email/{token} served at the same time, each *)
(* by its own worker thread with its own session                             *)
Procs == {1, 2}

(* a worker that serves no verification request *)
NotVerifying ==
    [pc |-> "idle", token |-> NoToken, user |-> NoId, expires |-> NoTime,
     code |-> 0, detail |-> ""]

(* no verification request is being served *)
NoRace == \A p \in Procs : verifying[p].pc = "idle"

(* no response is in flight and no verification request is half served: the *)
(* next request can be served                                               *)
Idle == resp = NoResponse /\ NoRace

(* no run of cleanup_deleted_users is between its query and its commit *)
NotSweeping == [pc |-> "idle", found |-> {}]

(* history of a step that issued tokens: each goes to the user the handler *)
(* issued it for                                                           *)
IssuedStep ==
    issuedTo' = issuedTo \cup {<<k, resp'.caller>> : k \in resp'.issued}

(* history of a step that wrote users: a user update that changed the email *)
(* of a user makes it await re-verification; a successful verify-email of   *)
(* that user, a status update that changed its status (only an admin can    *)
(* make one) and its removal end the wait                                   *)
ReverifyStep ==
    reverify' =
        LET changed == {u \in DOMAIN users \cap DOMAIN users' :
                          resp'.op = "update_user" /\ users'[u].email # users[u].email}
            released == {u \in reverify :
                           \/ u \notin DOMAIN users'
                           \/ resp'.op = "verify_email" /\ resp'.code = 200 /\ resp'.target = u
                           \/ /\ resp'.op = "update_user_status"
                              /\ resp'.target = u
                              /\ users'[u].status # users[u].status}
        IN  (reverify \ released) \cup changed

Response(op, code, detail) ==
    [op |-> op, code |-> code, detail |-> detail, caller |-> NoId, target |-> NoId,
     cred |-> NoJwt, email |-> "", password |-> "", token |-> NoToken, issued |-> {},
     body |-> {},
     email_sent |-> FALSE, status |-> "", notified |-> 0]

----------------------------------------------------------------------------
(* app/auth/dependencies.py *)

BlockedStatuses == {"SUSPENDED", "BANNED", "DELETED"}

(* get_current_user refusing INACTIVE as login does *)
get_current_user_blocks_inactive(credentials, token_type) ==
    LET v == verify_token(credentials, token_type)
        user == First(UserByEmail(credentials.sub))
    IN  IF v # "ok" THEN [code |-> 401, detail |-> v, user |-> NoId]
        ELSE IF user = NoId
             THEN [code |-> 401, detail |-> "Could not validate credentials", user |-> NoId]
        ELSE IF users[user].status \in BlockedStatuses \cup {"INACTIVE"}
             THEN [code |-> 403, detail |-> "Access denied", user |-> user]
        ELSE IF users[user].status = "PENDING"
             THEN [code |-> 403, detail |-> "Please verify your email address", user |-> user]
        ELSE [code |-> 200, detail |-> "", user |-> user]

(* get_current_user with the PENDING block of login, which lets the       *)
(* admin-listed emails through                                             *)
get_current_user_pending_bypass(credentials, token_type) ==
    LET v == verify_token(credentials, token_type)
        user == First(UserByEmail(credentials.sub))
    IN  IF v # "ok" THEN [code |-> 401, detail |-> v, user |-> NoId]
        ELSE IF user = NoId
             THEN [code |-> 401, detail |-> "Could not validate credentials", user |-> NoId]
        ELSE IF users[user].status \in BlockedStatuses
             THEN [code |-> 403, detail |-> "Access denied", user |-> user]
        ELSE IF users[user].email \notin ADMIN_EMAILS /\ users[user].status = "PENDING"
             THEN [code |-> 403, detail |-> "Please verify your email address", user |-> user]
        ELSE [code |-> 200, detail |-> "", user |-> user]

(* the outcome of the dependency: code 200 and the user, or the HTTPException *)
get_current_user(credentials, token_type) ==
    LET v == verify_token(credentials, token_type)
        user == First(UserByEmail(credentials.sub))
    IN  IF v # "ok" THEN [code |-> 401, detail |-> v, user |-> NoId]
        ELSE IF user = NoId
             THEN [code |-> 401, detail |-> "Could not validate credentials", user |-> NoId]
        ELSE IF users[user].status \in BlockedStatuses
             THEN [code |-> 403, detail |-> "Access denied", user |-> user]
        ELSE IF users[user].status = "PENDING"
             THEN [code |-> 403, detail |-> "Please verify your email address", user |-> user]
        ELSE [code |-> 200, detail |-> "", user |-> user]

(* is_admin raises 403 unless the user's email is in the allow-list *)
is_admin(current_user) == is_admin_email(users[current_user].email)

(* Depends(get_current_user) followed by Depends(is_admin) *)
admin_dependency(credentials) ==
    LET g == get_current_user(credentials, "access")
    IN  IF g.code # 200 THEN g
        ELSE IF ~is_admin(g.user)
             THEN [code |-> 403, detail |-> "Admin privileges required", user |-> g.user]
        ELSE g

(* the refresh cookie is validated like a bearer token of type refresh *)
get_refresh_token_user_from_cookie(refresh_token) ==
    get_current_user(refresh_token, "refresh")

(* what a client can put in the Authorization header or the cookie *)
Presentable == tokens \cup ForgedTokens

(* get_current_user answers 401 before the handler body runs: the path and *)
(* the body of such a request are not read, and one value stands for all   *)
Args(credentials, values) ==
    IF get_current_user(credentials, "access").code = 401
    THEN {CHOOSE v \in values : TRUE}
    ELSE values

----------------------------------------------------------------------------
(* app/config/email.py *)

(* secrets.token_urlsafe(32): a value never produced before *)
generate_verification_token == nextTok

get_verification_expiry == now + EMAIL_VERIFICATION_EXPIRE_HOURS

(* EmailService.send_verification_email(to_email, full_name, token) and    *)
(* send_status_change_email(to_email, full_name, new_status) take three    *)
(* arguments: a call that passes background_tasks as well raises TypeError *)
(* before anything is sent.                                                *)
EmailServiceArity == 3

send_raises(nargs) == nargs # EmailServiceArity

----------------------------------------------------------------------------
(* app/api/routes/auth.py *)

NewAdminUser(email, password) ==
    [email |-> email, hashed_password |-> hash_password(password),
     status |-> "ACTIVE", user_status |-> TRUE, email_verified |-> TRUE,
     email_verification_token |-> NoToken, email_verification_expires |-> NoTime,
     deleted_at |-> NoTime]

NewPendingUser(email, password) ==
    [email |-> email, hashed_password |-> hash_password(password),
     status |-> "PENDING", user_status |-> FALSE, email_verified |-> FALSE,
     email_verification_token |-> generate_verification_token,
     email_verification_expires |-> get_verification_expiry,
     deleted_at |-> NoTime]

(* db.add(new_user); db.commit(): the row gets the next serial id *)
Insert(row) == [id \in DOMAIN users \cup {nextUserId} |->
                    IF id = nextUserId THEN row ELSE users[id]]

(* POST /auth/register *)
register(email, password) ==
    LET existing_user == First(UserByEmail(email))
        is_admin_user == email \in ADMIN_EMAILS
        \* the non-admin branch calls send_verification_email with 4 arguments
        raised == ~is_admin_user /\ send_raises(4)
        r == [Response("register", 201, "") EXCEPT !.email = email]
    IN  IF existing_user # NoId
        THEN /\ resp' = [r EXCEPT !.code = 400, !.detail = "Email already registered"]
             /\ UNCHANGED <<users, nextUserId, nextTok>>
        ELSE IF raised
        THEN /\ resp' = [r EXCEPT !.code = 500, !.detail = "TypeError"]
             /\ UNCHANGED <<users, nextUserId, nextTok>>
        ELSE /\ nextUserId <= MaxUsers
             /\ IF is_admin_user
                THEN /\ users' = Insert(NewAdminUser(email, password))
                     /\ UNCHANGED nextTok
                ELSE /\ nextTok <= MaxTok
                     /\ users' = Insert(NewPendingUser(email, password))
                     /\ nextTok' = nextTok + 1
             /\ nextUserId' = nextUserId + 1
             /\ resp' = [r EXCEPT !.target = nextUserId]

Register ==
    /\ Idle
    /\ \E email \in Emails, password \in NewPasswords : register(email, password)
    /\ UNCHANGED <<todos, nextTodoId, now, tokens, consumed, reverify, verifying, issuedTo, sweeping>>

(* login without the status checks of lines 314-334 *)
login_no_status_gate(email, password) ==
    LET user == First(UserByEmail(email))
        r == [Response("login", 200, "") EXCEPT !.email = email, !.password = password]
        access_token == create_access_token(email, ACCESS_TOKEN_EXPIRE_MINUTES)
        refresh_token == create_refresh_token(email, REFRESH_TOKEN_EXPIRE_MINUTES)
    IN  IF user = NoId \/ ~verify_password(password, users[user].hashed_password)
        THEN /\ resp' = [r EXCEPT !.code = 401, !.detail = "Invalid email or password"]
             /\ UNCHANGED tokens
        ELSE /\ resp' = [r EXCEPT !.caller = user, !.issued = {access_token, refresh_token}]
             /\ tokens' = tokens \cup {access_token, refresh_token}
             /\ Cardinality(tokens') <= MaxTokens

(* login whose PENDING check of line 315 has no exception for admin emails *)
login_pending_blocks_all(email, password) ==
    LET user == First(UserByEmail(email))
        r == [Response("login", 200, "") EXCEPT !.email = email, !.password = password]
        access_token == create_access_token(email, ACCESS_TOKEN_EXPIRE_MINUTES)
        refresh_token == create_refresh_token(email, REFRESH_TOKEN_EXPIRE_MINUTES)
    IN  IF user = NoId \/ ~verify_password(password, users[user].hashed_password)
        THEN /\ resp' = [r EXCEPT !.code = 401, !.detail = "Invalid email or password"]
             /\ UNCHANGED tokens
        ELSE IF users[user].status = "PENDING"
        THEN /\ resp' = [r EXCEPT !.code = 403, !.detail = "Please verify your email address",
                                  !.caller = user]
             /\ UNCHANGED tokens
        ELSE IF users[user].status \in {"SUSPENDED", "BANNED", "DELETED"}
        THEN /\ resp' = [r EXCEPT !.code = 403, !.detail = "Account is blocked",
                                  !.caller = user]
             /\ UNCHANGED tokens
        ELSE IF users[user].status = "INACTIVE"
        THEN /\ resp' = [r EXCEPT !.code = 403, !.detail = "Account is inactive",
                                  !.caller = user]
             /\ UNCHANGED tokens
        ELSE /\ resp' = [r EXCEPT !.caller = user, !.issued = {access_token, refresh_token}]
             /\ tokens' = tokens \cup {access_token, refresh_token}
             /\ Cardinality(tokens') <= MaxTokens

(* POST /auth/login *)
login(email, password) ==
    LET user == First(UserByEmail(email))
        r == [Response("login", 200, "") EXCEPT !.email = email, !.password = password]
        access_token == create_access_token(email, ACCESS_TOKEN_EXPIRE_MINUTES)
        refresh_token == create_refresh_token(email, REFRESH_TOKEN_EXPIRE_MINUTES)
    IN  IF user = NoId \/ ~verify_password(password, users[user].hashed_password)
        THEN /\ resp' = [r EXCEPT !.code = 401, !.detail = "Invalid email or password"]
             /\ UNCHANGED tokens
        ELSE IF users[user].email \notin ADMIN_EMAILS /\ users[user].status = "PENDING"
        THEN /\ resp' = [r EXCEPT !.code = 403, !.detail = "Please verify your email address",
                                  !.caller = user]
             /\ UNCHANGED tokens
        ELSE IF users[user].status \in {"SUSPENDED", "BANNED", "DELETED"}
        THEN /\ resp' = [r EXCEPT !.code = 403, !.detail = "Account is blocked",
                                  !.caller = user]
             /\ UNCHANGED tokens
        ELSE IF users[user].status = "INACTIVE"
        THEN /\ resp' = [r EXCEPT !.code = 403, !.detail = "Account is inactive",
                                  !.caller = user]
             /\ UNCHANGED tokens
        ELSE /\ resp' = [r EXCEPT !.caller = user, !.issued = {access_token, refresh_token}]
             /\ tokens' = tokens \cup {access_token, refresh_token}
             /\ Cardinality(tokens') <= MaxTokens

Login ==
    /\ Idle
    /\ \E email \in Emails, password \in Passwords : login(email, password)
    /\ UNCHANGED <<users, nextUserId, todos, nextTodoId, nextTok, now, consumed, reverify, verifying, issuedTo, sweeping>>

(* login, with the history of the tokens it issued *)
LoginIssuing ==
    /\ Idle
    /\ \E email \in Emails, password \in Passwords : login(email, password)
    /\ UNCHANGED <<users, nextUserId, todos, nextTodoId, nextTok, now, consumed, reverify, verifying, sweeping>>
    /\ IssuedStep

(* verify_email_via_link that leaves the token and its expiry on the row *)
verify_email_via_link_keeps_token(token) ==
    LET user == First(UserByToken(token))
        r == [Response("verify_email", 200, "") EXCEPT !.token = token]
    IN  IF user = NoId
        THEN /\ resp' = [r EXCEPT !.code = 400, !.detail = "Invalid verification token"]
             /\ UNCHANGED <<users, consumed>>
        ELSE IF /\ users[user].email_verification_expires # NoTime
                /\ users[user].email_verification_expires < now
        THEN /\ resp' = [r EXCEPT !.code = 400, !.detail = "Verification token has expired",
                                  !.target = user]
             /\ UNCHANGED <<users, consumed>>
        ELSE /\ users' = [users EXCEPT ![user].status = "ACTIVE",
                                       ![user].email_verified = TRUE,
                                       ![user].user_status = TRUE]
             /\ resp' = [r EXCEPT !.target = user]
             /\ consumed' = consumed \cup {token}

(* verify_email_via_link without the expiry check of lines 146-151 *)
verify_email_via_link_no_expiry(token) ==
    LET user == First(UserByToken(token))
        r == [Response("verify_email", 200, "") EXCEPT !.token = token]
    IN  IF user = NoId
        THEN /\ resp' = [r EXCEPT !.code = 400, !.detail = "Invalid verification token"]
             /\ UNCHANGED <<users, consumed>>
        ELSE /\ users' = [users EXCEPT ![user].status = "ACTIVE",
                                       ![user].email_verified = TRUE,
                                       ![user].user_status = TRUE,
                                       ![user].email_verification_token = NoToken,
                                       ![user].email_verification_expires = NoTime]
             /\ resp' = [r EXCEPT !.target = user]
             /\ consumed' = consumed \cup {token}

(* GET /auth/verify-email/{token} *)
verify_email_via_link(token) ==
    LET user == First(UserByToken(token))
        r == [Response("verify_email", 200, "") EXCEPT !.token = token]
    IN  IF user = NoId
        THEN /\ resp' = [r EXCEPT !.code = 400, !.detail = "Invalid verification token"]
             /\ UNCHANGED <<users, consumed>>
        ELSE IF /\ users[user].email_verification_expires # NoTime
                /\ users[user].email_verification_expires < now
        THEN /\ resp' = [r EXCEPT !.code = 400, !.detail = "Verification token has expired",
                                  !.target = user]
             /\ UNCHANGED <<users, consumed>>
        ELSE /\ users' = [users EXCEPT ![user].status = "ACTIVE",
                                       ![user].email_verified = TRUE,
                                       ![user].user_status = TRUE,
                                       ![user].email_verification_token = NoToken,
                                       ![user].email_verification_expires = NoTime]
             /\ resp' = [r EXCEPT !.target = user]
             /\ consumed' = consumed \cup {token}

VerifyEmail ==
    /\ Idle
    /\ \E token \in 1..MaxTok : verify_email_via_link(token)
    /\ UNCHANGED <<nextUserId, todos, nextTodoId, nextTok, now, tokens, verifying, issuedTo, sweeping>>
    /\ ReverifyStep

(* verify_email_via_link as its worker thread runs it beside another one:   *)
(* first the query of lines 136-138, in the session of the request          *)
verify_email_query(p, token) ==
    LET user == First(UserByToken(token))
    IN  /\ verifying[p].pc = "idle"
        /\ verifying' = [verifying EXCEPT ![p] =
                [pc |-> "read", token |-> token, user |-> user,
                 expires |-> IF user = NoId THEN NoTime
                             ELSE users[user].email_verification_expires,
                 code |-> 0, detail |-> ""]]

VerifyQuery ==
    /\ resp = NoResponse
    /\ \E p \in Procs, token \in 1..MaxTok : verify_email_query(p, token)
    /\ UNCHANGED <<users, nextUserId, todos, nextTodoId, nextTok, now, tokens, resp,
                   consumed, reverify, issuedTo, sweeping>>

(* a commit that updates the row only while it still holds the token that   *)
(* was looked up, and answers Invalid verification token otherwise          *)
verify_email_commit_checks_token(p) ==
    LET v == verifying[p]
        answer(code, detail) ==
            verifying' = [verifying EXCEPT ![p].pc = "done", ![p].code = code,
                                           ![p].detail = detail]
    IN  /\ v.pc = "read"
        /\ IF v.user = NoId \/ users[v.user].email_verification_token # v.token
           THEN /\ answer(400, "Invalid verification token")
                /\ UNCHANGED <<users, consumed>>
           ELSE IF v.expires # NoTime /\ v.expires < now
           THEN /\ answer(400, "Verification token has expired")
                /\ UNCHANGED <<users, consumed>>
           ELSE /\ users' = [users EXCEPT ![v.user].status = "ACTIVE",
                                          ![v.user].email_verified = TRUE,
                                          ![v.user].user_status = TRUE,
                                          ![v.user].email_verification_token = NoToken,
                                          ![v.user].email_verification_expires = NoTime]
                /\ consumed' = consumed \cup {v.token}
                /\ answer(200, "")

(* ... then the checks of lines 140-151 on the row as it was read, the      *)
(* assignments of lines 153-157 and db.commit(): an UPDATE of the row by    *)
(* its id, which no lock and no version column makes wait or fail           *)
verify_email_commit(p) ==
    LET v == verifying[p]
        answer(code, detail) ==
            verifying' = [verifying EXCEPT ![p].pc = "done", ![p].code = code,
                                           ![p].detail = detail]
    IN  /\ v.pc = "read"
        /\ IF v.user = NoId
           THEN /\ answer(400, "Invalid verification token")
                /\ UNCHANGED <<users, consumed>>
           ELSE IF v.expires # NoTime /\ v.expires < now
           THEN /\ answer(400, "Verification token has expired")
                /\ UNCHANGED <<users, consumed>>
           ELSE /\ users' = [users EXCEPT ![v.user].status = "ACTIVE",
                                          ![v.user].email_verified = TRUE,
                                          ![v.user].user_status = TRUE,
                                          ![v.user].email_verification_token = NoToken,
                                          ![v.user].email_verification_expires = NoTime]
                /\ consumed' = consumed \cup {v.token}
                /\ answer(200, "")

VerifyCommit ==
    /\ \E p \in Procs : verify_email_commit(p)
    /\ reverify' = reverify \ {u \in DOMAIN users : users'[u] # users[u]}
    /\ UNCHANGED <<nextUserId, todos, nextTodoId, nextTok, now, tokens, resp, issuedTo, sweeping>>

(* the clients of the requests served together have their answers *)
VerifyDelivered ==
    /\ \E p \in Procs : verifying[p].pc = "done"
    /\ \A p \in Procs : verifying[p].pc # "read"
    /\ verifying' = [p \in Procs |-> NotVerifying]
    /\ UNCHANGED <<users, nextUserId, todos, nextTodoId, nextTok, now, tokens, resp,
                   consumed, reverify, issuedTo, sweeping>>

(* resend_verification that re-sends the token the matching account holds *)
resend_verification_keeps_token(target_email, smtp_ok) ==
    LET existing == First(UserByEmail(target_email))
        pending_users == PendingUsers
        verification_token == generate_verification_token
        verification_expiry == get_verification_expiry
        r == [Response("resend_verification", 200, "") EXCEPT !.email = target_email]
    IN  IF existing # NoId
        THEN /\ nextTok <= MaxTok
             /\ users' = [users EXCEPT
                    ![existing].email_verification_token =
                        IF @ = NoToken THEN verification_token ELSE @,
                    ![existing].email_verification_expires = verification_expiry,
                    ![existing].status =
                        IF @ # "PENDING" THEN "ACTIVE" ELSE @,
                    ![existing].email_verified =
                        IF users[existing].status # "PENDING" THEN TRUE ELSE @,
                    ![existing].user_status =
                        IF users[existing].status # "PENDING" THEN TRUE ELSE @]
             /\ nextTok' = nextTok + 1
             \* db.commit() is done; then send_verification_email(background_tasks, ...)
             /\ resp' = IF send_raises(4)
                        THEN [r EXCEPT !.code = 500, !.detail = "TypeError", !.target = existing]
                        ELSE [r EXCEPT !.target = existing]
        ELSE IF pending_users = {}
        THEN /\ resp' = [r EXCEPT !.code = 404, !.detail = "No pending verification accounts found"]
             /\ UNCHANGED <<users, nextTok>>
        ELSE IF Cardinality(pending_users) = 1
        THEN LET user == First(pending_users)
             IN  /\ nextTok <= MaxTok
                 /\ users' = [users EXCEPT
                        ![user].email = target_email,
                        ![user].email_verification_token = verification_token,
                        ![user].email_verification_expires = verification_expiry,
                        ![user].status = "PENDING",
                        ![user].email_verified = FALSE]
                 /\ nextTok' = nextTok + 1
                 \* db.commit() is done; then send_verification_email(target_email, ...)
                 /\ resp' = IF send_raises(3)
                            THEN [r EXCEPT !.code = 500, !.detail = "TypeError", !.target = user]
                            ELSE [r EXCEPT !.target = user, !.email_sent = smtp_ok]
        ELSE /\ resp' = [r EXCEPT !.code = 400, !.detail = "Multiple pending accounts found"]
             /\ UNCHANGED <<users, nextTok>>

(* resend_verification that corrects the first PENDING account of several *)
resend_verification_first_pending(target_email, smtp_ok) ==
    LET existing == First(UserByEmail(target_email))
        pending_users == PendingUsers
        verification_token == generate_verification_token
        verification_expiry == get_verification_expiry
        r == [Response("resend_verification", 200, "") EXCEPT !.email = target_email]
    IN  IF existing # NoId
        THEN /\ nextTok <= MaxTok
             /\ users' = [users EXCEPT
                    ![existing].email_verification_token = verification_token,
                    ![existing].email_verification_expires = verification_expiry,
                    ![existing].status =
                        IF @ # "PENDING" THEN "ACTIVE" ELSE @,
                    ![existing].email_verified =
                        IF users[existing].status # "PENDING" THEN TRUE ELSE @,
                    ![existing].user_status =
                        IF users[existing].status # "PENDING" THEN TRUE ELSE @]
             /\ nextTok' = nextTok + 1
             \* db.commit() is done; then send_verification_email(background_tasks, ...)
             /\ resp' = IF send_raises(4)
                        THEN [r EXCEPT !.code = 500, !.detail = "TypeError", !.target = existing]
                        ELSE [r EXCEPT !.target = existing]
        ELSE IF pending_users = {}
        THEN /\ resp' = [r EXCEPT !.code = 404, !.detail = "No pending verification accounts found"]
             /\ UNCHANGED <<users, nextTok>>
        ELSE IF Cardinality(pending_users) >= 1
        THEN LET user == First(pending_users)
             IN  /\ nextTok <= MaxTok
                 /\ users' = [users EXCEPT
                        ![user].email = target_email,
                        ![user].email_verification_token = verification_token,
                        ![user].email_verification_expires = verification_expiry,
                        ![user].status = "PENDING",
                        ![user].email_verified = FALSE]
                 /\ nextTok' = nextTok + 1
                 \* db.commit() is done; then send_verification_email(target_email, ...)
                 /\ resp' = IF send_raises(3)
                            THEN [r EXCEPT !.code = 500, !.detail = "TypeError", !.target = user]
                            ELSE [r EXCEPT !.target = user, !.email_sent = smtp_ok]
        ELSE /\ resp' = [r EXCEPT !.code = 400, !.detail = "Multiple pending accounts found"]
             /\ UNCHANGED <<users, nextTok>>

(* POST /auth/resend-verification *)
resend_verification(target_email, smtp_ok) ==
    LET existing == First(UserByEmail(target_email))
        pending_users == PendingUsers
        verification_token == generate_verification_token
        verification_expiry == get_verification_expiry
        r == [Response("resend_verification", 200, "") EXCEPT !.email = target_email]
    IN  IF existing # NoId
        THEN /\ nextTok <= MaxTok
             /\ users' = [users EXCEPT
                    ![existing].email_verification_token = verification_token,
                    ![existing].email_verification_expires = verification_expiry,
                    ![existing].status =
                        IF @ # "PENDING" THEN "ACTIVE" ELSE @,
                    ![existing].email_verified =
                        IF users[existing].status # "PENDING" THEN TRUE ELSE @,
                    ![existing].user_status =
                        IF users[existing].status # "PENDING" THEN TRUE ELSE @]
             /\ nextTok' = nextTok + 1
             \* db.commit() is done; then send_verification_email(background_tasks, ...)
             /\ resp' = IF send_raises(4)
                        THEN [r EXCEPT !.code = 500, !.detail = "TypeError", !.target = existing]
                        ELSE [r EXCEPT !.target = existing]
        ELSE IF pending_users = {}
        THEN /\ resp' = [r EXCEPT !.code = 404, !.detail = "No pending verification accounts found"]
             /\ UNCHANGED <<users, nextTok>>
        ELSE IF Cardinality(pending_users) = 1
        THEN LET user == First(pending_users)
             IN  /\ nextTok <= MaxTok
                 /\ users' = [users EXCEPT
                        ![user].email = target_email,
                        ![user].email_verification_token = verification_token,
                        ![user].email_verification_expires = verification_expiry,
                        ![user].status = "PENDING",
                        ![user].email_verified = FALSE]
                 /\ nextTok' = nextTok + 1
                 \* db.commit() is done; then send_verification_email(target_email, ...)
                 /\ resp' = IF send_raises(3)
                            THEN [r EXCEPT !.code = 500, !.detail = "TypeError", !.target = user]
                            ELSE [r EXCEPT !.target = user, !.email_sent = smtp_ok]
        ELSE /\ resp' = [r EXCEPT !.code = 400, !.detail = "Multiple pending accounts found"]
             /\ UNCHANGED <<users, nextTok>>

ResendVerification ==
    /\ Idle
    /\ \E target_email \in Emails, smtp_ok \in BOOLEAN :
            resend_verification(target_email, smtp_ok)
    /\ UNCHANGED <<nextUserId, todos, nextTodoId, now, tokens, consumed, reverify, verifying, issuedTo, sweeping>>

(* refresh_access_token that leaves the refresh token of the cookie in place *)
refresh_access_token_no_rotation(refresh_token) ==
    LET r == [Response("refresh", 200, "") EXCEPT !.cred = refresh_token]
        g == get_refresh_token_user_from_cookie(refresh_token)
        email == users[g.user].email
        access_token == create_access_token(email, ACCESS_TOKEN_EXPIRE_MINUTES)
    IN  IF refresh_token = NoJwt
        THEN /\ resp' = [r EXCEPT !.code = 401, !.detail = "Refresh token not found"]
             /\ UNCHANGED tokens
        ELSE IF g.code # 200
        THEN /\ resp' = [r EXCEPT !.code = g.code, !.detail = g.detail, !.caller = g.user]
             /\ UNCHANGED tokens
        ELSE /\ resp' = [r EXCEPT !.caller = g.user, !.issued = {access_token}]
             /\ tokens' = tokens \cup {access_token}
             /\ Cardinality(tokens') <= MaxTokens

(* POST /auth/refresh *)
refresh_access_token(refresh_token) ==
    LET r == [Response("refresh", 200, "") EXCEPT !.cred = refresh_token]
        g == get_refresh_token_user_from_cookie(refresh_token)
        email == users[g.user].email
        access_token == create_access_token(email, ACCESS_TOKEN_EXPIRE_MINUTES)
        new_refresh_token == create_refresh_token(email, REFRESH_TOKEN_EXPIRE_MINUTES)
    IN  IF refresh_token = NoJwt
        THEN /\ resp' = [r EXCEPT !.code = 401, !.detail = "Refresh token not found"]
             /\ UNCHANGED tokens
        ELSE IF g.code # 200
        THEN /\ resp' = [r EXCEPT !.code = g.code, !.detail = g.detail, !.caller = g.user]
             /\ UNCHANGED tokens
        ELSE /\ resp' = [r EXCEPT !.caller = g.user, !.issued = {access_token, new_refresh_token}]
             /\ tokens' = tokens \cup {access_token, new_refresh_token}
             /\ Cardinality(tokens') <= MaxTokens

Refresh ==
    /\ Idle
    /\ \E refresh_token \in Presentable \cup {NoJwt} : refresh_access_token(refresh_token)
    /\ UNCHANGED <<users, nextUserId, todos, nextTodoId, nextTok, now, consumed, reverify, verifying, issuedTo, sweeping>>

(* refresh_access_token, with the history of the tokens it issued *)
RefreshIssuing ==
    /\ Idle
    /\ \E refresh_token \in Presentable \cup {NoJwt} : refresh_access_token(refresh_token)
    /\ UNCHANGED <<users, nextUserId, todos, nextTodoId, nextTok, now, consumed, reverify, verifying, sweeping>>
    /\ IssuedStep

(* a logout that revokes the tokens issued so far *)
Logout_revokes_tokens ==
    /\ Idle
    /\ resp' = Response("logout", 200, "")
    /\ tokens' = {}
    /\ UNCHANGED <<users, nextUserId, todos, nextTodoId, nextTok, now, consumed, reverify, verifying, issuedTo, sweeping>>

(* POST /auth/logout *)
Logout ==
    /\ Idle
    /\ resp' = Response("logout", 200, "")
    /\ UNCHANGED <<users, nextUserId, todos, nextTodoId, nextTok, now, tokens, consumed, reverify, verifying, issuedTo, sweeping>>

(* User.soft_delete(): marks the row deleted and stamps the time *)
soft_delete(user) ==
    [users EXCEPT ![user].status = "DELETED", ![user].deleted_at = now]

(* update_user_status that answers 200 for an id get_user_or_404 does not find *)
update_user_status_no_404(credentials, user_id, new_status) ==
    LET g == admin_dependency(credentials)
        r == [Response("update_user_status", 200, "") EXCEPT
                    !.cred = credentials, !.target = user_id, !.caller = g.user,
                    !.status = new_status]
        old_status == users[user_id].status
    IN  IF g.code # 200
        THEN /\ resp' = [r EXCEPT !.code = g.code, !.detail = g.detail]
             /\ UNCHANGED users
        \* UserStatusUpdate.status is a UserStatus: the body fails validation
        ELSE IF new_status \notin UserStatus
        THEN /\ resp' = [r EXCEPT !.code = 422, !.detail = "Input should be a valid status"]
             /\ UNCHANGED users
        ELSE IF user_id \notin DOMAIN users
        THEN /\ resp' = r
             /\ UNCHANGED users
        ELSE /\ users' = IF new_status = "DELETED"
                         THEN soft_delete(user_id)
                         ELSE [users EXCEPT
                                ![user_id].status = new_status,
                                ![user_id].user_status = (new_status = "ACTIVE"),
                                ![user_id].deleted_at =
                                    IF old_status = "DELETED" THEN NoTime ELSE @]
             \* db.commit() is done; then
             \* send_status_change_email(background_tasks, ...) if the status changed
             /\ resp' = IF old_status # new_status /\ send_raises(4)
                        THEN [r EXCEPT !.code = 500, !.detail = "TypeError"]
                        ELSE [r EXCEPT !.notified = IF old_status # new_status THEN 1 ELSE 0]

(* PATCH /auth/users/{user_id}/status *)
update_user_status(credentials, user_id, new_status) ==
    LET g == admin_dependency(credentials)
        r == [Response("update_user_status", 200, "") EXCEPT
                    !.cred = credentials, !.target = user_id, !.caller = g.user,
                    !.status = new_status]
        old_status == users[user_id].status
    IN  IF g.code # 200
        THEN /\ resp' = [r EXCEPT !.code = g.code, !.detail = g.detail]
             /\ UNCHANGED users
        \* UserStatusUpdate.status is a UserStatus: the body fails validation
        ELSE IF new_status \notin UserStatus
        THEN /\ resp' = [r EXCEPT !.code = 422, !.detail = "Input should be a valid status"]
             /\ UNCHANGED users
        ELSE IF user_id \notin DOMAIN users
        THEN /\ resp' = [r EXCEPT !.code = 404, !.detail = "User not found"]
             /\ UNCHANGED users
        ELSE /\ users' = IF new_status = "DELETED"
                         THEN soft_delete(user_id)
                         ELSE [users EXCEPT
                                ![user_id].status = new_status,
                                ![user_id].user_status = (new_status = "ACTIVE"),
                                ![user_id].deleted_at =
                                    IF old_status = "DELETED" THEN NoTime ELSE @]
             \* db.commit() is done; then
             \* send_status_change_email(background_tasks, ...) if the status changed
             /\ resp' = IF old_status # new_status /\ send_raises(4)
                        THEN [r EXCEPT !.code = 500, !.detail = "TypeError"]
                        ELSE [r EXCEPT !.notified = IF old_status # new_status THEN 1 ELSE 0]

UpdateUserStatus ==
    /\ Idle
    /\ \E credentials \in Presentable :
         \E user_id \in Args(credentials, UserIds), new_status \in Args(credentials, StatusInputs) :
            update_user_status(credentials, user_id, new_status)
    /\ UNCHANGED <<nextUserId, todos, nextTodoId, nextTok, now, tokens, consumed, verifying, issuedTo, sweeping>>
    /\ ReverifyStep

(* GET /auth/users/{user_id} *)
get_user(credentials, user_id) ==
    LET g == admin_dependency(credentials)
        r == [Response("get_user", 200, "") EXCEPT
                    !.cred = credentials, !.target = user_id, !.caller = g.user]
    IN  resp' = IF g.code # 200 THEN [r EXCEPT !.code = g.code, !.detail = g.detail]
                ELSE IF user_id \notin DOMAIN users
                     THEN [r EXCEPT !.code = 404, !.detail = "User not found"]
                ELSE [r EXCEPT !.body = {user_id}]

GetUser ==
    /\ Idle
    /\ \E credentials \in Presentable :
         \E user_id \in Args(credentials, UserIds) : get_user(credentials, user_id)
    /\ UNCHANGED <<users, nextUserId, todos, nextTodoId, nextTok, now, tokens, consumed, reverify, verifying, issuedTo, sweeping>>

(* GET /auth/users, with the default page=1, per_page=10 *)
get_all_users(credentials, status_filter) ==
    LET g == admin_dependency(credentials)
        r == [Response("get_all_users", 200, "") EXCEPT !.cred = credentials, !.caller = g.user]
    IN  resp' = IF g.code # 200 THEN [r EXCEPT !.code = g.code, !.detail = g.detail]
                ELSE [r EXCEPT !.body = {id \in DOMAIN users :
                            status_filter = "" \/ users[id].status = status_filter}]

GetAllUsers ==
    /\ Idle
    /\ \E credentials \in Presentable :
         \E status_filter \in Args(credentials, {"", "PENDING"}) :
            get_all_users(credentials, status_filter)
    /\ UNCHANGED <<users, nextUserId, todos, nextTodoId, nextTok, now, tokens, consumed, reverify, verifying, issuedTo, sweeping>>

(* GET /auth/profile *)
get_profile(credentials) ==
    LET g == get_current_user(credentials, "access")
        r == [Response("get_profile", 200, "") EXCEPT !.cred = credentials, !.caller = g.user]
    IN  resp' = IF g.code # 200 THEN [r EXCEPT !.code = g.code, !.detail = g.detail]
                ELSE [r EXCEPT !.body = {g.user}]

GetProfile ==
    /\ Idle
    /\ \E credentials \in Presentable : get_profile(credentials)
    /\ UNCHANGED <<users, nextUserId, todos, nextTodoId, nextTok, now, tokens, consumed, reverify, verifying, issuedTo, sweeping>>

(* update_user without the check of lines 501-508: any caller updates any user *)
update_user_no_owner_check(credentials, user_id, email, password) ==
    LET g == get_current_user(credentials, "access")
        r == [Response("update_user", 200, "") EXCEPT
                    !.cred = credentials, !.target = user_id, !.caller = g.user,
                    !.email = email, !.password = password]
        u == users[user_id]
        email_changed == email # "" /\ email # u.email
        with_password == IF password # ""
                         THEN [u EXCEPT !.hashed_password = hash_password(password)]
                         ELSE u
        updated == IF email_changed
                   THEN [with_password EXCEPT
                            !.email = email,
                            !.email_verified = FALSE,
                            !.email_verification_token = generate_verification_token,
                            !.email_verification_expires = get_verification_expiry,
                            !.status = IF @ = "ACTIVE" THEN "PENDING" ELSE @]
                   ELSE with_password
        \* users.email is UNIQUE: the commit raises IntegrityError
        integrity_error == email_changed /\ UserByEmail(email) # {}
    IN  IF g.code # 200
        THEN /\ resp' = [r EXCEPT !.code = g.code, !.detail = g.detail]
             /\ UNCHANGED <<users, nextTok>>
        ELSE IF user_id \notin DOMAIN users
        THEN /\ resp' = [r EXCEPT !.code = 404, !.detail = "User not found"]
             /\ UNCHANGED <<users, nextTok>>
        ELSE IF integrity_error
        THEN /\ resp' = [r EXCEPT !.code = 500, !.detail = "IntegrityError"]
             /\ UNCHANGED <<users, nextTok>>
        ELSE /\ email_changed => nextTok <= MaxTok
             /\ users' = [users EXCEPT ![user_id] = updated]
             /\ nextTok' = IF email_changed THEN nextTok + 1 ELSE nextTok
             \* db.commit() is done; then
             \* send_verification_email(background_tasks, ...) if the email changed
             /\ resp' = IF email_changed /\ send_raises(4)
                        THEN [r EXCEPT !.code = 500, !.detail = "TypeError"]
                        ELSE [r EXCEPT !.body = {user_id}]

(* PATCH /auth/users/{user_id}; "" stands for a field the body leaves unset *)
update_user(credentials, user_id, email, password) ==
    LET g == get_current_user(credentials, "access")
        r == [Response("update_user", 200, "") EXCEPT
                    !.cred = credentials, !.target = user_id, !.caller = g.user,
                    !.email = email, !.password = password]
        u == users[user_id]
        email_changed == email # "" /\ email # u.email
        with_password == IF password # ""
                         THEN [u EXCEPT !.hashed_password = hash_password(password)]
                         ELSE u
        updated == IF email_changed
                   THEN [with_password EXCEPT
                            !.email = email,
                            !.email_verified = FALSE,
                            !.email_verification_token = generate_verification_token,
                            !.email_verification_expires = get_verification_expiry,
                            !.status = IF @ = "ACTIVE" THEN "PENDING" ELSE @]
                   ELSE with_password
        \* users.email is UNIQUE: the commit raises IntegrityError
        integrity_error == email_changed /\ UserByEmail(email) # {}
    IN  IF g.code # 200
        THEN /\ resp' = [r EXCEPT !.code = g.code, !.detail = g.detail]
             /\ UNCHANGED <<users, nextTok>>
        ELSE IF user_id \notin DOMAIN users
        THEN /\ resp' = [r EXCEPT !.code = 404, !.detail = "User not found"]
             /\ UNCHANGED <<users, nextTok>>
        ELSE IF ~is_admin(g.user) /\ user_id # g.user
        THEN /\ resp' = [r EXCEPT !.code = 403,
                                  !.detail = "You can only update your own profile"]
             /\ UNCHANGED <<users, nextTok>>
        ELSE IF integrity_error
        THEN /\ resp' = [r EXCEPT !.code = 500, !.detail = "IntegrityError"]
             /\ UNCHANGED <<users, nextTok>>
        ELSE /\ email_changed => nextTok <= MaxTok
             /\ users' = [users EXCEPT ![user_id] = updated]
             /\ nextTok' = IF email_changed THEN nextTok + 1 ELSE nextTok
             \* db.commit() is done; then
             \* send_verification_email(background_tasks, ...) if the email changed
             /\ resp' = IF email_changed /\ send_raises(4)
                        THEN [r EXCEPT !.code = 500, !.detail = "TypeError"]
                        ELSE [r EXCEPT !.body = {user_id}]

UpdateUser ==
    /\ Idle
    /\ \E credentials \in Presentable :
         \E user_id \in Args(credentials, UserIds),
            email \in Args(credentials, Emails \cup {""}),
            password \in Args(credentials, NewPasswords \cup {""}) :
            update_user(credentials, user_id, email, password)
    /\ UNCHANGED <<nextUserId, todos, nextTodoId, now, tokens, consumed, verifying, issuedTo, sweeping>>
    /\ ReverifyStep

----------------------------------------------------------------------------
(* app/api/routes/todos.py *)

(* the rows a caller's query ranges over: all for an admin, else the own *)
todo_query(current_user) ==
    IF is_admin(current_user)
    THEN DOMAIN todos
    ELSE {id \in DOMAIN todos : todos[id].user_id = current_user}

(* GET /todos/, with the default page=1, per_page=10 *)
get_todos(credentials) ==
    LET g == get_current_user(credentials, "access")
        r == [Response("get_todos", 200, "") EXCEPT !.cred = credentials, !.caller = g.user]
    IN  resp' = IF g.code # 200 THEN [r EXCEPT !.code = g.code, !.detail = g.detail]
                ELSE [r EXCEPT !.body = todo_query(g.user)]

GetTodos ==
    /\ Idle
    /\ \E credentials \in Presentable : get_todos(credentials)
    /\ UNCHANGED <<users, nextUserId, todos, nextTodoId, nextTok, now, tokens, consumed, reverify, verifying, issuedTo, sweeping>>

(* create_todo taking the owner from the email field of the body when a   *)
(* stored user has that email                                             *)
create_todo_owner_from_body(credentials, email, completed) ==
    LET g == get_current_user(credentials, "access")
        r == [Response("create_todo", 201, "") EXCEPT
                 !.cred = credentials, !.caller = g.user, !.email = email]
        named == First(UserByEmail(email))
        new_todo == [user_id |-> IF named = NoId THEN g.user ELSE named,
                     completed |-> completed]
    IN  IF g.code # 200
        THEN /\ resp' = [r EXCEPT !.code = g.code, !.detail = g.detail]
             /\ UNCHANGED <<todos, nextTodoId>>
        ELSE /\ nextTodoId <= MaxTodos
             /\ todos' = [id \in DOMAIN todos \cup {nextTodoId} |->
                            IF id = nextTodoId THEN new_todo ELSE todos[id]]
             /\ nextTodoId' = nextTodoId + 1
             /\ resp' = [r EXCEPT !.target = nextTodoId, !.body = {nextTodoId}]

(* POST /todos/ : the body is a TodoCreate, whose full_name and email name *)
(* a person; the row takes user_id, full_name and email from current_user  *)
(* and only task and completed from the body                               *)
create_todo(credentials, email, completed) ==
    LET g == get_current_user(credentials, "access")
        r == [Response("create_todo", 201, "") EXCEPT
                 !.cred = credentials, !.caller = g.user, !.email = email]
        new_todo == [user_id |-> g.user, completed |-> completed]
    IN  IF g.code # 200
        THEN /\ resp' = [r EXCEPT !.code = g.code, !.detail = g.detail]
             /\ UNCHANGED <<todos, nextTodoId>>
        ELSE /\ nextTodoId <= MaxTodos
             /\ todos' = [id \in DOMAIN todos \cup {nextTodoId} |->
                            IF id = nextTodoId THEN new_todo ELSE todos[id]]
             /\ nextTodoId' = nextTodoId + 1
             /\ resp' = [r EXCEPT !.target = nextTodoId, !.body = {nextTodoId}]

CreateTodo ==
    /\ Idle
    /\ \E credentials \in Presentable :
         \E body \in Args(credentials, Emails \X BOOLEAN) :
            create_todo(credentials, body[1], body[2])
    /\ UNCHANGED <<users, nextUserId, nextTok, now, tokens, consumed, reverify, verifying, issuedTo, sweeping>>

(* todo_access without the owner check of lines 73-81, 106-114, 142-150 *)
todo_access_no_owner_check(credentials, todo_id) ==
    LET g == get_current_user(credentials, "access")
    IN  IF g.code # 200 THEN g
        ELSE IF todo_id \notin DOMAIN todos
             THEN [code |-> 404, detail |-> "Todo not found", user |-> g.user]
        ELSE g

(* the checks get_todo, update_todo and delete_todo share: the dependency, *)
(* the lookup by id, then the owner check that is_admin's 403 triggers     *)
todo_access(credentials, todo_id) ==
    LET g == get_current_user(credentials, "access")
    IN  IF g.code # 200 THEN g
        ELSE IF todo_id \notin DOMAIN todos
             THEN [code |-> 404, detail |-> "Todo not found", user |-> g.user]
        ELSE IF ~is_admin(g.user) /\ todos[todo_id].user_id # g.user
             THEN [code |-> 403, detail |-> "Not authorized", user |-> g.user]
        ELSE g

(* GET /todos/{todo_id} *)
get_todo(credentials, todo_id) ==
    LET a == todo_access(credentials, todo_id)
        r == [Response("get_todo", 200, "") EXCEPT
                    !.cred = credentials, !.target = todo_id, !.caller = a.user]
    IN  resp' = IF a.code # 200 THEN [r EXCEPT !.code = a.code, !.detail = a.detail]
                ELSE [r EXCEPT !.body = {todo_id}]

GetTodo ==
    /\ Idle
    /\ \E credentials \in Presentable :
         \E todo_id \in Args(credentials, TodoIds) : get_todo(credentials, todo_id)
    /\ UNCHANGED <<users, nextUserId, todos, nextTodoId, nextTok, now, tokens, consumed, reverify, verifying, issuedTo, sweeping>>

(* update_todo that writes a user_id key of the body to the row *)
update_todo_writes_owner(credentials, todo_id, owner, completed) ==
    LET a == todo_access(credentials, todo_id)
        r == [Response("update_todo", 200, "") EXCEPT
                    !.cred = credentials, !.target = todo_id, !.caller = a.user]
    IN  IF a.code # 200
        THEN /\ resp' = [r EXCEPT !.code = a.code, !.detail = a.detail]
             /\ UNCHANGED todos
        ELSE /\ todos' = [todos EXCEPT ![todo_id].completed = completed,
                                       ![todo_id].user_id = IF owner = NoId THEN @ ELSE owner]
             /\ resp' = [r EXCEPT !.body = {todo_id}]

(* PUT /todos/{todo_id}: the body is a TodoUpdate, which has the fields     *)
(* full_name, email, task and completed; a user_id key in the body (owner,  *)
(* NoId when absent) is not a field, is dropped by validation and never     *)
(* reaches the setattr loop                                                 *)
update_todo(credentials, todo_id, owner, completed) ==
    LET a == todo_access(credentials, todo_id)
        r == [Response("update_todo", 200, "") EXCEPT
                    !.cred = credentials, !.target = todo_id, !.caller = a.user]
    IN  IF a.code # 200
        THEN /\ resp' = [r EXCEPT !.code = a.code, !.detail = a.detail]
             /\ UNCHANGED todos
        ELSE /\ todos' = [todos EXCEPT ![todo_id].completed = completed]
             /\ resp' = [r EXCEPT !.body = {todo_id}]

UpdateTodo ==
    /\ Idle
    /\ \E credentials \in Presentable :
         \E todo_id \in Args(credentials, TodoIds),
            owner \in Args(credentials, UserIds \cup {NoId}),
            completed \in Args(credentials, BOOLEAN) :
            update_todo(credentials, todo_id, owner, completed)
    /\ UNCHANGED <<users, nextUserId, nextTodoId, nextTok, now, tokens, consumed, reverify, verifying, issuedTo, sweeping>>

(* DELETE /todos/{todo_id} *)
delete_todo(credentials, todo_id) ==
    LET a == todo_access(credentials, todo_id)
        r == [Response("delete_todo", 204, "") EXCEPT
                    !.cred = credentials, !.target = todo_id, !.caller = a.user]
    IN  IF a.code # 200
        THEN /\ resp' = [r EXCEPT !.code = a.code, !.detail = a.detail]
             /\ UNCHANGED todos
        ELSE /\ todos' = [id \in DOMAIN todos \ {todo_id} |-> todos[id]]
             /\ resp' = r

DeleteTodo ==
    /\ Idle
    /\ \E credentials \in Presentable :
         \E todo_id \in Args(credentials, TodoIds) : delete_todo(credentials, todo_id)
    /\ UNCHANGED <<users, nextUserId, nextTodoId, nextTok, now, tokens, consumed, reverify, verifying, issuedTo, sweeping>>

----------------------------------------------------------------------------
(* app/api/routes/admin.py *)

(* POST /admin/cleanup-deleted-users: app/main.py includes auth.router and  *)
(* todos.router and never admin.router, so the application has no such     *)
(* route and answers 404 before any dependency of the handler runs          *)
trigger_cleanup_deleted_users(credentials) ==
    resp' = [Response("trigger_cleanup_deleted_users", 404, "Not Found") EXCEPT
                !.cred = credentials]

TriggerCleanup ==
    /\ Idle
    /\ \E credentials \in Presentable : trigger_cleanup_deleted_users(credentials)
    /\ UNCHANGED <<users, nextUserId, todos, nextTodoId, nextTok, now, tokens, consumed,
                   reverify, verifying, issuedTo, sweeping>>

----------------------------------------------------------------------------
(* app/config/background.py *)

(* timedelta(days=30) of cleanup_deleted_users, in clock ticks of one day *)
RETENTION_DAYS == 30

(* a sweep on a database that lets a user go while todos still name it *)
cleanup_deleted_users_no_integrity_check ==
    LET cutoff_date == now - RETENTION_DAYS
        deleted_users == {u \in DOMAIN users :
                            /\ users[u].status = "DELETED"
                            /\ users[u].deleted_at # NoTime
                            /\ users[u].deleted_at <= cutoff_date}
        r == Response("cleanup_deleted_users", 200, "")
    IN  IF deleted_users = {}
        THEN /\ resp' = r
             /\ UNCHANGED users
        ELSE /\ users' = [u \in DOMAIN users \ deleted_users |-> users[u]]
             /\ resp' = [r EXCEPT !.body = deleted_users]

(* cleanup_deleted_users(): resp holds what the function returns, body the  *)
(* users it deleted (deleted_count is their number), or the exception it    *)
(* re-raises. db.delete(user) on a user whose todos relationship has no     *)
(* delete cascade makes the flush set todos.user_id to NULL for its todos;  *)
(* the column is NOT NULL, so the commit raises IntegrityError and the      *)
(* except branch rolls the whole sweep back.                                *)
cleanup_deleted_users ==
    LET cutoff_date == now - RETENTION_DAYS
        deleted_users == {u \in DOMAIN users :
                            /\ users[u].status = "DELETED"
                            /\ users[u].deleted_at # NoTime
                            /\ users[u].deleted_at <= cutoff_date}
        orphaned == {t \in DOMAIN todos : todos[t].user_id \in deleted_users}
        r == Response("cleanup_deleted_users", 200, "")
    IN  IF deleted_users = {}
        THEN /\ resp' = r
             /\ UNCHANGED users
        ELSE IF orphaned # {}
        THEN /\ resp' = [r EXCEPT !.code = 500, !.detail = "IntegrityError"]
             /\ UNCHANGED users
        ELSE /\ users' = [u \in DOMAIN users \ deleted_users |-> users[u]]
             /\ resp' = [r EXCEPT !.body = deleted_users]

Sweep ==
    /\ Idle
    /\ cleanup_deleted_users
    /\ reverify' = reverify \cap DOMAIN users'
    /\ UNCHANGED <<nextUserId, todos, nextTodoId, nextTok, now, tokens, consumed, verifying, issuedTo, sweeping>>

(* cleanup_deleted_users() up to the end of its query (background.py:16-28): *)
(* the session holds the rows that qualified when it read them; with none   *)
(* the function returns deleted_count 0 at once.                            *)
cleanup_deleted_users_query ==
    LET cutoff_date == now - RETENTION_DAYS
        deleted_users == {u \in DOMAIN users :
                            /\ users[u].status = "DELETED"
                            /\ users[u].deleted_at # NoTime
                            /\ users[u].deleted_at <= cutoff_date}
    IN  IF deleted_users = {}
        THEN /\ resp' = Response("cleanup_deleted_users", 200, "")
             /\ sweeping' = NotSweeping
        ELSE /\ sweeping' = [pc |-> "read", found |-> deleted_users]
             /\ UNCHANGED resp

(* cleanup_deleted_users() from its loop to its return (background.py:30-42): *)
(* db.delete(user) for each row the query returned and one commit. The      *)
(* flush deletes each row by its primary key and reads nothing of it again; *)
(* it first sets todos.user_id to NULL for the todos the user has by now,   *)
(* which raises IntegrityError and rolls the run back.                      *)
cleanup_deleted_users_commit ==
    LET deleted_users == sweeping.found
        orphaned == {t \in DOMAIN todos : todos[t].user_id \in deleted_users}
        r == Response("cleanup_deleted_users", 200, "")
    IN  IF orphaned # {}
        THEN /\ resp' = [r EXCEPT !.code = 500, !.detail = "IntegrityError"]
             /\ UNCHANGED users
        ELSE /\ users' = [u \in DOMAIN users \ deleted_users |-> users[u]]
             /\ resp' = [r EXCEPT !.body = deleted_users]

(* the sweep reads; requests are served before it goes on *)
SweepQuery ==
    /\ Idle
    /\ sweeping = NotSweeping
    /\ cleanup_deleted_users_query
    /\ UNCHANGED <<users, nextUserId, todos, nextTodoId, nextTok, now, tokens, consumed,
                   reverify, verifying, issuedTo>>

(* the sweep that has read deletes and commits *)
SweepCommit ==
    /\ Idle
    /\ sweeping.pc = "read"
    /\ cleanup_deleted_users_commit
    /\ sweeping' = NotSweeping
    /\ reverify' = reverify \cap DOMAIN users'
    /\ UNCHANGED <<nextUserId, todos, nextTodoId, nextTok, now, tokens, consumed, verifying,
                   issuedTo>>

(* cleanup_deleted_users() running while requests are served *)
SweepRace ==
    \/ SweepQuery
    \/ SweepCommit

(* the retention window passes *)
RetentionPasses ==
    /\ Idle
    /\ now + RETENTION_DAYS <= MaxTime * RETENTION_DAYS
    /\ now' = now + RETENTION_DAYS
    /\ UNCHANGED <<users, nextUserId, todos, nextTodoId, nextTok, tokens, resp, consumed,
                   reverify, verifying, issuedTo, sweeping>>

----------------------------------------------------------------------------

(* time passes *)
Tick ==
    /\ Idle
    /\ now < MaxTime
    /\ now' = now + 1
    /\ UNCHANGED <<users, nextUserId, todos, nextTodoId, nextTok, tokens, resp, consumed, reverify, verifying, issuedTo, sweeping>>

(* the client receives the response *)
Deliver ==
    /\ ~Idle
    /\ resp' = NoResponse
    /\ UNCHANGED <<users, nextUserId, todos, nextTodoId, nextTok, now, tokens, consumed, reverify, verifying, issuedTo, sweeping>>

----------------------------------------------------------------------------
(* The tables are empty after create_tables(); no request has been served. *)
Init ==
    /\ users = <<>>
    /\ nextUserId = 1
    /\ todos = <<>>
    /\ nextTodoId = 1
    /\ nextTok = 1
    /\ now = 0
    /\ tokens = {}
    /\ resp = NoResponse
    /\ consumed = {}
    /\ reverify = {}
    /\ verifying = [p \in Procs |-> NotVerifying]
    /\ issuedTo = {}
    /\ sweeping = NotSweeping

(* every handler of app/api/routes/auth.py *)
AccountRequest ==
    \/ Register
    \/ VerifyEmail
    \/ ResendVerification
    \/ Refresh
    \/ Login
    \/ Logout
    \/ UpdateUserStatus
    \/ GetUser
    \/ GetAllUsers
    \/ GetProfile
    \/ UpdateUser

(* every handler of app/api/routes/todos.py *)
TodoRequest ==
    \/ GetTodos
    \/ CreateTodo
    \/ GetTodo
    \/ UpdateTodo
    \/ DeleteTodo

(* GET /auth/verify-email/{token} served by two workers at once *)
VerifyRace ==
    \/ VerifyQuery
    \/ VerifyCommit
    \/ VerifyDelivered

(* the handler of app/api/routes/admin.py *)
AdminRequest ==
    \/ TriggerCleanup

(* login and refresh, recording whom each token was issued to *)
IssuingRequest ==
    \/ LoginIssuing
    \/ RefreshIssuing

Next ==
    \/ AccountRequest
    \/ TodoRequest
    \/ AdminRequest
    \/ IssuingRequest
    \/ VerifyRace
    \/ Sweep
    \/ SweepRace
    \/ Tick
    \/ RetentionPasses
    \/ Deliver

Spec == Init /\ [][Next]_vars

(* The account API alone, over time: no client calls /todos. *)
AccountNext ==
    \/ AccountRequest
    \/ Tick
    \/ Deliver

AccountSpec == Init /\ [][AccountNext]_vars

(* User management within one clock tick: the account API and the admin    *)
(* route.                                                                  *)
AdminNext ==
    \/ AccountRequest
    \/ AdminRequest
    \/ Deliver

AdminSpec == Init /\ [][AdminNext]_vars

(* Accounts, their status, their todos and the sweep, over retention       *)
(* windows: the requests that create users and todos and move a user to    *)
(* DELETED and back, and the job that purges.                              *)
SweepNext ==
    \/ Register
    \/ Login
    \/ UpdateUser
    \/ UpdateUserStatus
    \/ CreateTodo
    \/ UpdateTodo
    \/ DeleteTodo
    \/ Sweep
    \/ RetentionPasses
    \/ Deliver

SweepSpec == Init /\ [][SweepNext]_vars

(* The sweep running while requests are served: the requests that create   *)
(* users and move a user to DELETED and back, and the job that purges, its *)
(* query and its commit apart.                                             *)
SweepRaceNext ==
    \/ Register
    \/ Login
    \/ UpdateUser
    \/ UpdateUserStatus
    \/ SweepRace
    \/ RetentionPasses
    \/ Deliver

SweepRaceSpec == Init /\ [][SweepRaceNext]_vars

(* Verification requests racing each other, between the requests that make *)
(* an account hold a verification token.                                   *)
RaceNext ==
    \/ Register
    \/ Login
    \/ UpdateUser
    \/ ResendVerification
    \/ VerifyRace
    \/ Tick
    \/ Deliver

RaceSpec == Init /\ [][RaceNext]_vars

(* Tokens and the accounts they name, within one clock tick: the requests  *)
(* that create accounts, issue tokens, move an email from one account to   *)
(* the next and read the profile of the caller.                            *)
IssueNext ==
    \/ Register
    \/ IssuingRequest
    \/ UpdateUser
    \/ GetProfile
    \/ Deliver

IssueSpec == Init /\ [][IssueNext]_vars

(* The whole API within one clock tick: no token expires. *)
TodoNext ==
    \/ AccountRequest
    \/ TodoRequest
    \/ Deliver

TodoSpec == Init /\ [][TodoNext]_vars

----------------------------------------------------------------------------
(* Vocabulary of the properties *)

(* the handlers behind Depends(get_current_user) *)
GuardedOps ==
    {"get_todos", "create_todo", "get_todo", "update_todo", "delete_todo",
     "get_profile", "update_user", "update_user_status", "get_user", "get_all_users"}

TodoOps == {"get_todo", "update_todo", "delete_todo"}

(* the bearer credential is a genuine, unexpired access token whose subject *)
(* is the email of stored user u                                            *)
Resolves(cred, u) ==
    /\ cred.signed
    /\ cred.type = "access"
    /\ cred.exp >= now
    /\ u \in DOMAIN users
    /\ users[u].email = cred.sub

(* ... and u's status lets the guard through *)
Authenticates(cred, u) ==
    /\ Resolves(cred, u)
    /\ users[u].status \in {"ACTIVE", "INACTIVE"}

(* a request was served in this step *)
Served(op) == Idle /\ resp'.op = op

----------------------------------------------------------------------------
(* C1: a guarded operation whose bearer token resolves to a user that is    *)
(* SUSPENDED, BANNED, DELETED or PENDING at the time of the request answers *)
(* 403 and leaves the tables and the issued tokens as they were, whatever   *)
(* the user's status was when the token was issued.                         *)
C1_BlockedStatusForbidden ==
    [][\A u \in DOMAIN users :
          ( /\ Idle
            /\ resp'.op \in GuardedOps
            /\ Resolves(resp'.cred, u)
            /\ users[u].status \in {"SUSPENDED", "BANNED", "DELETED", "PENDING"} )
          => (resp'.code = 403 /\ UNCHANGED store /\ UNCHANGED tokens)]_vars

(* a token issued while its user could log in is refused once the user is suspended *)
C1_Witness ==
    /\ resp.op = "create_todo"
    /\ resp.code = 403
    /\ resp.cred \in tokens
    /\ \E u \in DOMAIN users :
            /\ Resolves(resp.cred, u)
            /\ users[u].status = "SUSPENDED"
            /\ users[u].email \notin ADMIN_EMAILS

----------------------------------------------------------------------------
(* C2, as claimed: a status update by an authenticated caller that is not   *)
(* an admin, on another user, answers 403 and changes nothing; by an admin, *)
(* on a stored user, it succeeds; and a status becomes SUSPENDED or BANNED  *)
(* only in a status update by an admin.                                     *)
C2_AdminOnlyStatusUpdate ==
    [][ /\ \A c \in DOMAIN users :
              (Served("update_user_status") /\ Authenticates(resp'.cred, c))
              => /\ (~is_admin_email(users[c].email) /\ resp'.target # c)
                        => (resp'.code = 403 /\ UNCHANGED store)
                 /\ (is_admin_email(users[c].email) /\ resp'.target \in DOMAIN users)
                        => resp'.code = 200
        /\ \A u \in DOMAIN users \cap DOMAIN users' :
              ( /\ users'[u].status \in {"SUSPENDED", "BANNED"}
                /\ users'[u].status # users[u].status )
              => /\ Served("update_user_status")
                 /\ \E c \in DOMAIN users :
                        Authenticates(resp'.cred, c) /\ is_admin_email(users[c].email)
      ]_vars

----------------------------------------------------------------------------
(* C3: for an authenticated caller that is not an admin, the list holds     *)
(* exactly the caller's own todos, and get, update and delete of a todo of  *)
(* another owner return nothing and leave the todos as they were; for an    *)
(* admin the list holds every todo, and get, update and delete of any       *)
(* stored todo succeed: get returns it, update returns it and keeps it      *)
(* stored, delete removes it.                                               *)
C3_TodoOwnershipIsolation ==
    [][\A c \in DOMAIN users :
          (Idle /\ Authenticates(resp'.cred, c))
          => LET t == resp'.target
                 admin == is_admin_email(users[c].email)
                 own == {id \in DOMAIN todos : todos[id].user_id = c}
             IN  /\ resp'.op = "get_todos"
                      => resp'.body = IF admin THEN DOMAIN todos ELSE own
                 /\ (resp'.op \in TodoOps /\ ~admin /\ t \in DOMAIN todos \ own)
                      => (resp'.body = {} /\ resp'.code \notin {200, 204} /\ todos' = todos)
                 /\ (resp'.op \in TodoOps /\ admin /\ t \in DOMAIN todos)
                      => /\ resp'.op = "get_todo"
                              => (resp'.code = 200 /\ resp'.body = {t})
                         /\ resp'.op = "update_todo"
                              => (resp'.code = 200 /\ resp'.body = {t} /\ t \in DOMAIN todos')
                         /\ resp'.op = "delete_todo"
                              => (resp'.code = 204 /\ t \notin DOMAIN todos')
      ]_vars

(* a caller that is not an admin was refused the update of a stored todo    *)
(* of another owner                                                         *)
C3_Witness ==
    /\ resp.op = "update_todo"
    /\ resp.caller \in DOMAIN users
    /\ ~is_admin_email(users[resp.caller].email)
    /\ resp.target \in DOMAIN todos
    /\ todos[resp.target].user_id # resp.caller
    /\ resp.code = 403
    /\ resp.body = {}

(* C4, as claimed: for an authenticated caller that is not an admin, get,   *)
(* update and delete of a todo of another owner answer what they answer for *)
(* an id that is not stored: 404 "Todo not found".                          *)
C4_NoExistenceLeak ==
    [][\A c \in DOMAIN users :
          ( /\ Idle
            /\ resp'.op \in TodoOps
            /\ Authenticates(resp'.cred, c)
            /\ ~is_admin_email(users[c].email)
            /\ resp'.target \in DOMAIN todos
            /\ todos[resp'.target].user_id # c )
          => (resp'.code = 404 /\ resp'.detail = "Todo not found")
      ]_vars

(* C5, as claimed: a registration with an email that is not yet registered  *)
(* answers 201 and creates a user that is PENDING, unverified, with a token *)
(* and an expiry when the email is not admin-listed, and ACTIVE, verified,  *)
(* without a token when it is.                                              *)
C5_RegistrationOutcome ==
    [][(Served("register") /\ UserByEmail(resp'.email) = {})
          => LET id == resp'.target
             IN  /\ resp'.code = 201
                 /\ id \in DOMAIN users' \ DOMAIN users
                 /\ users'[id].email = resp'.email
                 /\ IF is_admin_email(resp'.email)
                    THEN /\ users'[id].status = "ACTIVE"
                         /\ users'[id].email_verified
                         /\ users'[id].email_verification_token = NoToken
                    ELSE /\ users'[id].status = "PENDING"
                         /\ ~users'[id].email_verified
                         /\ users'[id].email_verification_token # NoToken
                         /\ users'[id].email_verification_expires # NoTime
      ]_vars

(* C6: a verification with the token of a user whose expiry has not passed  *)
(* answers 200 and leaves that user ACTIVE, verified, without token and     *)
(* expiry; a verification with a token that has already verified an account *)
(* answers 400 "Invalid verification token" and changes no user; so a       *)
(* verification succeeds only with a token that has not succeeded before.   *)
C6_SingleUseVerification ==
    [][Served("verify_email")
          => LET t == resp'.token
             IN  /\ \A u \in UserByToken(t) :
                        now < users[u].email_verification_expires
                        => /\ resp'.code = 200
                           /\ users'[u].status = "ACTIVE"
                           /\ users'[u].email_verified
                           /\ users'[u].email_verification_token = NoToken
                           /\ users'[u].email_verification_expires = NoTime
                 /\ t \in consumed
                        => /\ resp'.code = 400
                           /\ resp'.detail = "Invalid verification token"
                           /\ UNCHANGED store
                 /\ resp'.code = 200 => t \notin consumed
      ]_vars

(* a token that had verified an account was presented again and refused    *)
C6_Witness ==
    /\ resp.op = "verify_email"
    /\ resp.token \in consumed
    /\ resp.code = 400
    /\ resp.detail = "Invalid verification token"
    /\ \E u \in DOMAIN users : users[u].status = "ACTIVE" /\ users[u].email_verified

(* C7: a verification with the token of a user whose expiry has passed      *)
(* answers 400 "Verification token has expired" and leaves every user, that *)
(* one's status, email_verified, token and expiry included, as it was.      *)
C7_ExpiredVerification ==
    [][Served("verify_email")
          => \A u \in UserByToken(resp'.token) :
                ( /\ users[u].email_verification_expires # NoTime
                  /\ users[u].email_verification_expires < now )
                => /\ resp'.code = 400
                   /\ resp'.detail = "Verification token has expired"
                   /\ users'[u] = users[u]
                   /\ UNCHANGED store
      ]_vars

(* an expired token was presented: its user still holds it and is PENDING   *)
C7_Witness ==
    /\ resp.op = "verify_email"
    /\ resp.detail = "Verification token has expired"
    /\ resp.target \in DOMAIN users
    /\ users[resp.target].email_verification_token = resp.token
    /\ users[resp.target].email_verification_expires < now
    /\ users[resp.target].status = "PENDING"

C9_LoginGating ==
    [][Served("login")
          => LET us == UserByEmail(resp'.email)
                 ok(u) == verify_password(resp'.password, users[u].hashed_password)
                 gated(u) == \/ users[u].status \in {"SUSPENDED", "BANNED", "DELETED"}
                             \/ /\ users[u].status = "PENDING"
                                /\ ~is_admin_email(users[u].email)
             IN  /\ (us = {} \/ \E u \in us : ~ok(u)) => resp'.code = 401
                 /\ \A u \in us : (ok(u) /\ gated(u)) => resp'.code = 403
                 /\ resp'.code = 200 => \E u \in us : ok(u) /\ ~gated(u)
                 /\ resp'.code # 200 => (resp'.issued = {} /\ tokens' = tokens)
                 /\ UNCHANGED store
      ]_vars

(* a login with the right password was refused because the user, whose      *)
(* email is not admin-listed, is PENDING                                    *)
C9_Witness ==
    /\ resp.op = "login"
    /\ resp.code = 403
    /\ resp.issued = {}
    /\ resp.caller \in DOMAIN users
    /\ users[resp.caller].status = "PENDING"
    /\ ~is_admin_email(users[resp.caller].email)
    /\ verify_password(resp.password, users[resp.caller].hashed_password)

(* C10: for a PENDING user whose email is admin-listed, a login with the    *)
(* right password answers 200 and issues an access and a refresh token for  *)
(* that email, and every guarded operation called with a genuine, unexpired *)
(* access token of that user answers 403 and changes nothing.               *)
C10_AdminPendingAsymmetry ==
    [][\A u \in DOMAIN users :
          (users[u].status = "PENDING" /\ is_admin_email(users[u].email))
          => /\ ( /\ Served("login")
                  /\ resp'.email = users[u].email
                  /\ verify_password(resp'.password, users[u].hashed_password) )
                => /\ resp'.code = 200
                   /\ {k.type : k \in resp'.issued} = {"access", "refresh"}
                   /\ \A k \in resp'.issued : k.sub = users[u].email /\ k.signed
                   /\ resp'.issued \subseteq tokens'
             /\ (Idle /\ resp'.op \in GuardedOps /\ Resolves(resp'.cred, u))
                => (resp'.code = 403 /\ UNCHANGED store)
      ]_vars

(* a PENDING user with an admin-listed email logged in and holds the tokens *)
C10_Witness ==
    /\ resp.op = "login"
    /\ resp.code = 200
    /\ resp.issued # {}
    /\ resp.issued \subseteq tokens
    /\ resp.caller \in DOMAIN users
    /\ users[resp.caller].status = "PENDING"
    /\ is_admin_email(users[resp.caller].email)

----------------------------------------------------------------------------
(* C11, as claimed: a status update by an authenticated caller that is not  *)
(* an admin, on the caller's own id, succeeds and leaves the caller         *)
(* INACTIVE when it asks for INACTIVE and the caller is not INACTIVE; when  *)
(* it asks for another status, or for INACTIVE while INACTIVE, it is        *)
(* refused and the caller's status stays as it was.                         *)
C11_SelfDeactivation ==
    [][\A c \in DOMAIN users :
          ( /\ Served("update_user_status")
            /\ Authenticates(resp'.cred, c)
            /\ ~is_admin_email(users[c].email)
            /\ resp'.target = c )
          => IF resp'.status = "INACTIVE" /\ users[c].status # "INACTIVE"
             THEN resp'.code = 200 /\ users'[c].status = "INACTIVE"
             ELSE resp'.code # 200 /\ users'[c].status = users[c].status
      ]_vars

(* C12, as claimed: every user that is DELETED has a deleted_at; a status   *)
(* update to DELETED by an admin on a stored user succeeds and leaves the   *)
(* user DELETED with a deleted_at; on a user that is already DELETED it     *)
(* sends no notification.                                                   *)
C12_DeletionTimestamp ==
    [][ /\ \A u \in DOMAIN users' :
              users'[u].status = "DELETED" => users'[u].deleted_at # NoTime
        /\ \A c \in DOMAIN users :
              ( /\ Served("update_user_status")
                /\ Authenticates(resp'.cred, c)
                /\ is_admin_email(users[c].email)
                /\ resp'.target \in DOMAIN users
                /\ resp'.status = "DELETED" )
              => /\ resp'.code = 200
                 /\ users'[resp'.target].status = "DELETED"
                 /\ users'[resp'.target].deleted_at # NoTime
                 /\ users[resp'.target].status = "DELETED" => resp'.notified = 0
      ]_vars

(* C13, as claimed: every user that is not DELETED has no deleted_at.       *)
C13_ReactivationClearsDeletedAt ==
    \A u \in DOMAIN users :
        users[u].status # "DELETED" => users[u].deleted_at = NoTime

(* C14, as claimed: a user's status goes from DELETED to another status     *)
(* only in a status update by an authenticated admin.                       *)
C14_DeletedReversibleByAdminOnly ==
    [][\A u \in DOMAIN users \cap DOMAIN users' :
          (users[u].status = "DELETED" /\ users'[u].status # "DELETED")
          => /\ Served("update_user_status")
             /\ \E c \in DOMAIN users :
                    Authenticates(resp'.cred, c) /\ is_admin_email(users[c].email)
      ]_vars

(* C15, as claimed: a status update by an admin on a stored user, asking    *)
(* for one of the six statuses, succeeds; it sends one notification when    *)
(* the status asked for differs from the user's status and none when it is  *)
(* the same.                                                                *)
C15_NotifyOnChangeOnly ==
    [][\A c \in DOMAIN users :
          ( /\ Served("update_user_status")
            /\ Authenticates(resp'.cred, c)
            /\ is_admin_email(users[c].email)
            /\ resp'.target \in DOMAIN users
            /\ resp'.status \in UserStatus )
          => /\ resp'.code = 200
             /\ resp'.notified =
                    IF resp'.status # users[resp'.target].status THEN 1 ELSE 0
      ]_vars

(* C16, as claimed: every user whose email is verified holds no            *)
(* verification token.                                                      *)
C16_VerifiedHoldNoToken ==
    \A u \in DOMAIN users :
        users[u].email_verified => users[u].email_verification_token = NoToken

(* C17, as claimed: no two stored users have the same email; a             *)
(* registration with an email a user holds, and a permitted user update     *)
(* that asks for an email another user holds, are refused as a conflict     *)
(* (400 or 409) and leave the store unchanged; a resend never gives a user  *)
(* an email another user holds.                                             *)
C17_EmailUniqueness ==
    [][ /\ \A u, v \in DOMAIN users' :
              u # v => users'[u].email # users'[v].email
        /\ (Served("register") /\ UserByEmail(resp'.email) # {})
              => (resp'.code \in {400, 409} /\ UNCHANGED store)
        /\ \A c \in DOMAIN users :
              ( /\ Served("update_user")
                /\ Authenticates(resp'.cred, c)
                /\ resp'.target \in DOMAIN users
                /\ (is_admin_email(users[c].email) \/ resp'.target = c)
                /\ UserByEmail(resp'.email) \ {resp'.target} # {} )
              => (resp'.code \in {400, 409} /\ UNCHANGED store)
        /\ \A u \in DOMAIN users :
              (Served("resend_verification") /\ users'[u].email # users[u].email)
              => UserByEmail(users'[u].email) = {}
      ]_vars

(* C18: a status update by an authenticated admin that asks for one of the  *)
(* six statuses on an id that is not stored answers 404, and one that asks  *)
(* for a value that is none of the six answers 422; in both cases the store *)
(* is unchanged and no notification is sent.                                *)
C18_StatusUpdateErrors ==
    [][\A c \in DOMAIN users :
          ( /\ Served("update_user_status")
            /\ Authenticates(resp'.cred, c)
            /\ is_admin_email(users[c].email) )
          => /\ (resp'.status \in UserStatus /\ resp'.target \notin DOMAIN users)
                    => /\ resp'.code = 404
                       /\ resp'.notified = 0
                       /\ UNCHANGED store
             /\ resp'.status \notin UserStatus
                    => /\ resp'.code = 422
                       /\ resp'.notified = 0
                       /\ UNCHANGED store
      ]_vars

(* an admin asked for a status on an id that is not stored and got 404      *)
C18_Witness ==
    /\ resp.op = "update_user_status"
    /\ resp.code = 404
    /\ resp.status \in UserStatus
    /\ resp.target \notin DOMAIN users
    /\ resp.caller \in DOMAIN users
    /\ is_admin_email(users[resp.caller].email)
    /\ resp.notified = 0

(* C19: a resend with the email of a stored user gives that user a token    *)
(* never issued before and the expiry of a token issued now, and no user    *)
(* holds the token it replaced; a token that was issued and that no user    *)
(* holds is never held again, and verifying with it answers 400 "Invalid    *)
(* verification token" and changes nothing; verifying with the token a      *)
(* user holds, its expiry not passed, answers 200 and leaves the user       *)
(* ACTIVE and verified.                                                     *)
C19_ResendInvalidatesToken ==
    [][ /\ \A u \in DOMAIN users :
              (Served("resend_verification") /\ users[u].email = resp'.email)
              => LET old == users[u].email_verification_token
                     new == users'[u].email_verification_token
                 IN  /\ new # NoToken
                     /\ new # old
                     /\ new >= nextTok
                     /\ users'[u].email_verification_expires
                            = now + EMAIL_VERIFICATION_EXPIRE_HOURS
                     /\ \A v \in DOMAIN users' :
                            old # NoToken => users'[v].email_verification_token # old
        /\ \A t \in 1..(nextTok - 1) :
              UserByToken(t) = {}
              => /\ \A v \in DOMAIN users' : users'[v].email_verification_token # t
                 /\ (Served("verify_email") /\ resp'.token = t)
                        => /\ resp'.code = 400
                           /\ resp'.detail = "Invalid verification token"
                           /\ UNCHANGED store
        /\ \A u \in DOMAIN users :
              ( /\ Served("verify_email")
                /\ resp'.token = users[u].email_verification_token
                /\ users[u].email_verification_expires >= now )
              => /\ resp'.code = 200
                 /\ users'[u].status = "ACTIVE"
                 /\ users'[u].email_verified
      ]_vars

(* a resend for a stored user replaced the token that user held: the user   *)
(* holds the newest token, and an older one, never used, is held by no one  *)
C19_Witness ==
    /\ resp.op = "resend_verification"
    /\ resp.target \in DOMAIN users
    /\ users[resp.target].email = resp.email
    /\ users[resp.target].email_verification_token = nextTok - 1
    /\ \E t \in 1..(nextTok - 2) : t \notin consumed /\ UserByToken(t) = {}

(* C20: a resend with an email no user holds, when exactly one user is      *)
(* PENDING, answers 200, gives that user the email, a token never issued    *)
(* before and the expiry of a token issued now, leaves it PENDING and       *)
(* unverified and leaves every other user as it was; when no user is        *)
(* PENDING it answers 404, and when several are it answers 400 "Multiple    *)
(* pending accounts found", in both cases with the store unchanged.         *)
C20_ResendEmailCorrection ==
    [][(Served("resend_verification") /\ UserByEmail(resp'.email) = {})
          => IF Cardinality(PendingUsers) = 1
             THEN \A u \in PendingUsers :
                    /\ resp'.code = 200
                    /\ DOMAIN users' = DOMAIN users
                    /\ users'[u].email = resp'.email
                    /\ users'[u].email_verification_token # NoToken
                    /\ users'[u].email_verification_token >= nextTok
                    /\ users'[u].email_verification_expires
                            = now + EMAIL_VERIFICATION_EXPIRE_HOURS
                    /\ users'[u].status = "PENDING"
                    /\ ~users'[u].email_verified
                    /\ \A v \in DOMAIN users \ {u} : users'[v] = users[v]
             ELSE IF PendingUsers = {}
             THEN resp'.code = 404 /\ UNCHANGED store
             ELSE /\ resp'.code = 400
                  /\ resp'.detail = "Multiple pending accounts found"
                  /\ UNCHANGED store
      ]_vars

(* the sole PENDING user was given the email of the request and a new token *)
C20_Witness ==
    /\ resp.op = "resend_verification"
    /\ resp.code = 200
    /\ resp.target \in DOMAIN users
    /\ PendingUsers = {resp.target}
    /\ users[resp.target].email = resp.email
    /\ users[resp.target].email_verification_token = nextTok - 1
    /\ ~users[resp.target].email_verified

----------------------------------------------------------------------------
(* C21: a refresh whose cookie holds a genuine, unexpired token of type     *)
(* refresh, its subject the email of a stored user that is ACTIVE or        *)
(* INACTIVE, answers 200 and issues exactly an access token and a refresh   *)
(* token for that email, each expiring its lifetime from now; any other     *)
(* refresh answers otherwise and issues no token; no refresh changes the    *)
(* store.                                                                   *)
C21_RefreshRotation ==
    [][Served("refresh")
          => LET k == resp'.cred
                 permitted == {u \in DOMAIN users :
                                 /\ k.signed
                                 /\ k.type = "refresh"
                                 /\ k.exp >= now
                                 /\ users[u].email = k.sub
                                 /\ users[u].status \in {"ACTIVE", "INACTIVE"}}
             IN  /\ \A u \in permitted :
                        /\ resp'.code = 200
                        /\ resp'.issued =
                             {[sub |-> users[u].email, type |-> "access", signed |-> TRUE,
                               exp |-> now + ACCESS_TOKEN_EXPIRE_MINUTES],
                              [sub |-> users[u].email, type |-> "refresh", signed |-> TRUE,
                               exp |-> now + REFRESH_TOKEN_EXPIRE_MINUTES]}
                        /\ tokens' = tokens \cup resp'.issued
                 /\ permitted = {}
                        => (resp'.code # 200 /\ resp'.issued = {} /\ tokens' = tokens)
                 /\ UNCHANGED store
      ]_vars

(* a refresh token was exchanged for an access token and a refresh token    *)
(* that expires later than the one presented                                *)
C21_Witness ==
    /\ resp.op = "refresh"
    /\ resp.code = 200
    /\ resp.cred.type = "refresh"
    /\ \E a, n \in resp.issued :
            /\ a.type = "access"
            /\ n.type = "refresh"
            /\ n.exp > resp.cred.exp
            /\ a.sub = resp.cred.sub
            /\ n.sub = resp.cred.sub

(* C22: a logout answers 200 and changes neither the store nor the tokens   *)
(* issued; whatever happened before, a guarded operation called with a      *)
(* genuine, unexpired access token of a user that is ACTIVE or INACTIVE     *)
(* authenticates that user, and a refresh called with such a refresh token  *)
(* answers 200.                                                             *)
C22_LogoutStateless ==
    [][ /\ Served("logout")
              => (resp'.code = 200 /\ UNCHANGED <<store, tokens>>)
        /\ \A u \in DOMAIN users :
              (Idle /\ resp'.op \in GuardedOps /\ Authenticates(resp'.cred, u))
              => (resp'.code # 401 /\ resp'.caller = u)
        /\ \A u \in DOMAIN users :
              ( /\ Served("refresh")
                /\ resp'.cred.signed
                /\ resp'.cred.type = "refresh"
                /\ resp'.cred.exp >= now
                /\ users[u].email = resp'.cred.sub
                /\ users[u].status \in {"ACTIVE", "INACTIVE"} )
              => (resp'.code = 200 /\ resp'.caller = u)
      ]_vars

(* a logout was served while an access and a refresh token of an ACTIVE     *)
(* user are unexpired: both are still held and still valid                  *)
C22_Witness ==
    /\ resp.op = "logout"
    /\ resp.code = 200
    /\ \E a, n \in tokens, u \in DOMAIN users :
            /\ a.type = "access" /\ a.exp >= now /\ a.sub = users[u].email
            /\ n.type = "refresh" /\ n.exp >= now /\ n.sub = users[u].email
            /\ users[u].status = "ACTIVE"

(* C23: a todo created by an authenticated caller has the caller's id as    *)
(* its user_id, whatever email the request body names, also when the        *)
(* caller is an admin; the creation adds that one row and changes no other. *)
C23_CreateStampsCaller ==
    [][\A u \in DOMAIN users :
          ( /\ Served("create_todo")
            /\ Authenticates(resp'.cred, u) )
          => /\ resp'.code = 201
             /\ resp'.caller = u
             /\ resp'.target \notin DOMAIN todos
             /\ DOMAIN todos' = DOMAIN todos \cup {resp'.target}
             /\ todos'[resp'.target].user_id = u
             /\ \A t \in DOMAIN todos : todos'[t] = todos[t]
             /\ UNCHANGED users ]_vars

(* an admin created a todo with a body that names the email of another      *)
(* stored user, and the row belongs to the admin                            *)
C23_Witness ==
    /\ resp.op = "create_todo"
    /\ resp.code = 201
    /\ resp.caller \in DOMAIN users
    /\ users[resp.caller].email \in ADMIN_EMAILS
    /\ \E other \in DOMAIN users \ {resp.caller} : users[other].email = resp.email
    /\ resp.target \in DOMAIN todos
    /\ todos[resp.target].user_id = resp.caller

(* C25, as claimed: a register, verify, resend-verification, status update, *)
(* user update or todo create/update/delete request that ends in an error   *)
(* response leaves the tables exactly as they were before the request.      *)
C25_RequestAtomicity ==
    [][( /\ Idle
         /\ resp'.op \in {"register", "verify_email", "resend_verification",
                          "update_user_status", "update_user",
                          "create_todo", "update_todo", "delete_todo"}
         /\ resp'.code >= 400 )
       => UNCHANGED store]_vars

(* C26, as claimed: for register, resend-verification, user update and      *)
(* status update the response and the stored state do not depend on         *)
(* whether the email dispatch succeeds: the step a resend takes with one    *)
(* outcome of the SMTP exchange is the step it takes with the other, and    *)
(* none of the four requests is answered with the error its dispatch        *)
(* raised.                                                                  *)
C26_EmailFailureNotSurfaced ==
    [][ /\ \A e \in Emails :
              (Served("resend_verification") /\ resp'.email = e)
              => \A smtp_ok \in BOOLEAN : resend_verification(e, smtp_ok)
        /\ ( /\ Idle
             /\ resp'.op \in {"register", "resend_verification",
                              "update_user", "update_user_status"} )
           => resp'.detail # "TypeError"
      ]_vars

(* C29, as claimed: a user update that changes a user's email leaves that   *)
(* user with email_verified false and a verification token never issued     *)
(* before, and makes an ACTIVE user PENDING; while the user awaits          *)
(* re-verification its email_verified does not become true, and it does not *)
(* go from PENDING to ACTIVE, in any step other than a successful           *)
(* verify-email of that user with the token it holds or a status update of  *)
(* that user.                                                               *)
C29_EmailChangeReverification ==
    [][ /\ \A u \in DOMAIN users :
              ( /\ Served("update_user")
                /\ users'[u].email # users[u].email )
              => /\ ~users'[u].email_verified
                 /\ users'[u].email_verification_token = nextTok
                 /\ nextTok' = nextTok + 1
                 /\ users[u].status = "ACTIVE" => users'[u].status = "PENDING"
                 /\ u \in reverify'
        /\ \A u \in reverify :
              ( \/ ~users[u].email_verified /\ users'[u].email_verified
                \/ users[u].status = "PENDING" /\ users'[u].status = "ACTIVE" )
              => \/ /\ Served("verify_email")
                    /\ resp'.code = 200
                    /\ resp'.target = u
                    /\ resp'.token = users[u].email_verification_token
                 \/ /\ Served("update_user_status")
                    /\ resp'.target = u
      ]_vars

(* C30: a user update by an authenticated caller on an id no user has       *)
(* answers 404, and by a caller that is not an admin on the id of another   *)
(* stored user answers 403; both change nothing. On the caller's own id, or *)
(* on any stored id when the caller is an admin, it is not refused, it      *)
(* writes the email and the password of the body to that user unless        *)
(* another user holds the email, and it writes to no other user.            *)
C30_UserUpdateAuthorization ==
    [][\A u \in DOMAIN users :
          ( /\ Served("update_user")
            /\ Authenticates(resp'.cred, u) )
          => LET t == resp'.target
                 admin == users[u].email \in ADMIN_EMAILS
                 taken == \E o \in DOMAIN users \ {t} : users[o].email = resp'.email
             IN  /\ resp'.caller = u
                 /\ t \notin DOMAIN users
                       => (resp'.code = 404 /\ UNCHANGED <<store, nextTok>>)
                 /\ (t \in DOMAIN users /\ t # u /\ ~admin)
                       => (resp'.code = 403 /\ UNCHANGED <<store, nextTok>>)
                 /\ (t \in DOMAIN users /\ (t = u \/ admin))
                       => /\ resp'.code \notin {401, 403, 404}
                          /\ \A o \in DOMAIN users \ {t} : users'[o] = users[o]
                          /\ DOMAIN users' = DOMAIN users
                          /\ ~taken =>
                               /\ resp'.email # "" => users'[t].email = resp'.email
                               /\ resp'.email = "" => users'[t].email = users[t].email
                               /\ resp'.password # "" =>
                                    users'[t].hashed_password = hash_password(resp'.password)
                               /\ resp'.password = "" =>
                                    users'[t].hashed_password = users[t].hashed_password
      ]_vars

(* a caller that is not an admin asked to change the email of another       *)
(* stored user and was answered 403                                         *)
C30_Witness ==
    /\ resp.op = "update_user"
    /\ resp.code = 403
    /\ resp.detail = "You can only update your own profile"
    /\ resp.email # ""
    /\ resp.caller \in DOMAIN users
    /\ resp.target \in DOMAIN users \ {resp.caller}
    /\ users[resp.caller].email \notin ADMIN_EMAILS
    /\ users[resp.target].email # resp.email

(* two verification requests with the same token, which the first to look   *)
(* it up found on a row and unexpired, have both been answered              *)
SameTokenRaceDone ==
    /\ \A p \in Procs : verifying[p].pc = "done"
    /\ verifying[1].token = verifying[2].token
    /\ \E p \in Procs :
            /\ verifying[p].user # NoId
            /\ ~(verifying[p].expires # NoTime /\ verifying[p].expires < now)

(* the row the racing requests looked up is the one a single successful     *)
(* verification leaves                                                      *)
VerifiedOnce ==
    \A p \in Procs :
        verifying[p].user # NoId =>
            LET row == users[verifying[p].user]
            IN  /\ row.status = "ACTIVE"
                /\ row.email_verified
                /\ row.email_verification_token = NoToken
                /\ row.email_verification_expires = NoTime

(* C27, as claimed: of two verification requests with the same unexpired    *)
(* token served concurrently, in every interleaving exactly one succeeds    *)
(* and the other fails with Invalid verification token, and the row is left *)
(* as a single successful verification leaves it.                           *)
C27_ExactlyOneSucceeds ==
    SameTokenRaceDone =>
        /\ \E p, q \in Procs :
                /\ p # q
                /\ verifying[p].code = 200
                /\ verifying[q].code = 400
                /\ verifying[q].detail = "Invalid verification token"
        /\ VerifiedOnce

(* C27, amended: of two verification requests with the same unexpired token *)
(* served concurrently, with no other request between them, at least one    *)
(* succeeds; the other fails with Invalid verification token when it looked *)
(* the token up after the first committed and found no row, and succeeds as *)
(* well when it had looked the row up before; in every interleaving the row *)
(* is left as a single successful verification leaves it.                   *)
C27_AtLeastOneSucceeds ==
    SameTokenRaceDone =>
        /\ \E p \in Procs : verifying[p].code = 200
        /\ \A p \in Procs :
                IF verifying[p].user # NoId
                THEN verifying[p].code = 200
                ELSE /\ verifying[p].code = 400
                     /\ verifying[p].detail = "Invalid verification token"
        /\ VerifiedOnce

(* both requests looked the token up before either committed, and both      *)
(* were answered 200                                                        *)
C27_Witness ==
    /\ SameTokenRaceDone
    /\ \A p \in Procs : verifying[p].code = 200 /\ verifying[p].user # NoId
    /\ verifying[1].user = verifying[2].user

(* C24: in every reachable state every stored todo's user_id is the id of a *)
(* stored user, whatever todo requests, status updates and sweeps came      *)
(* before.                                                                  *)
C24_TodoReferentialIntegrity ==
    \A t \in DOMAIN todos : todos[t].user_id \in DOMAIN users

(* a sweep ran when a user past the retention window still owned a todo:    *)
(* the user and the todo are both still stored                              *)
C24_Witness ==
    /\ resp.op = "cleanup_deleted_users"
    /\ \E t \in DOMAIN todos :
            /\ todos[t].user_id \in DOMAIN users
            /\ users[todos[t].user_id].status = "DELETED"
            /\ users[todos[t].user_id].deleted_at # NoTime
            /\ users[todos[t].user_id].deleted_at <= now - RETENTION_DAYS

(* C28, as claimed: one run of the sweep removes exactly the users that are *)
(* DELETED with deleted_at at or before now minus the retention window,     *)
(* reports their number, and leaves every other user stored and unmodified; *)
(* when no user qualifies it reports 0 and changes nothing.                 *)
C28_SweepSelectivity ==
    [][Served("cleanup_deleted_users")
          => LET qualifying == {u \in DOMAIN users :
                                  /\ users[u].status = "DELETED"
                                  /\ users[u].deleted_at # NoTime
                                  /\ users[u].deleted_at <= now - RETENTION_DAYS}
             IN  /\ DOMAIN users' = DOMAIN users \ qualifying
                 /\ \A u \in DOMAIN users' : users'[u] = users[u]
                 /\ resp'.code = 200
                 /\ Cardinality(resp'.body) = Cardinality(qualifying)
                 /\ qualifying = {} => UNCHANGED store
      ]_vars

(* C31, as claimed: a user whose status is SUSPENDED, BANNED or INACTIVE    *)
(* becomes ACTIVE only in a status update of that user made by an admin;    *)
(* no resend-verification and no verify-email moves such a user to ACTIVE.  *)
C31_SanctionNeedsAdmin ==
    [][\A u \in DOMAIN users \cap DOMAIN users' :
          ( /\ users[u].status \in {"SUSPENDED", "BANNED", "INACTIVE"}
            /\ users'[u].status = "ACTIVE" )
          => /\ Served("update_user_status")
             /\ resp'.target = u
             /\ resp'.status = "ACTIVE"
             /\ resp'.caller \in DOMAIN users
             /\ users[resp'.caller].email \in ADMIN_EMAILS
      ]_vars

(* C34, as claimed: in every reachable state each user's user_status flag   *)
(* is true exactly when its status is ACTIVE.                               *)
C34_BooleanStatusMirror ==
    \A u \in DOMAIN users : users[u].user_status <=> (users[u].status = "ACTIVE")

(* C35: no step changes the user_id of a stored todo, so none of the        *)
(* updates by its owner or by an admin does; a todo appears only in a       *)
(* create_todo, under an id no todo had before and with the caller as       *)
(* user_id: every todo's user_id is the id of the user that created it.     *)
C35_TodoOwnerImmutable ==
    [][ /\ \A t \in DOMAIN todos \cap DOMAIN todos' :
              todos'[t].user_id = todos[t].user_id
        /\ \A t \in DOMAIN todos' \ DOMAIN todos :
              /\ Served("create_todo")
              /\ t = resp'.target
              /\ t = nextTodoId
              /\ todos'[t].user_id = resp'.caller
        /\ nextTodoId' >= nextTodoId
        /\ \A t \in DOMAIN todos : t < nextTodoId
        /\ Served("update_todo") => DOMAIN todos' = DOMAIN todos
      ]_vars

(* an admin updated the todo of another user, with a body that names the    *)
(* admin as user_id or not, and the todo is still its creator's             *)
C35_Witness ==
    /\ resp.op = "update_todo"
    /\ resp.code = 200
    /\ resp.target \in DOMAIN todos
    /\ resp.caller \in DOMAIN users
    /\ users[resp.caller].email \in ADMIN_EMAILS
    /\ todos[resp.target].user_id # resp.caller

(* C33, as claimed: for a user whose email is not admin-listed and whose    *)
(* status is PENDING, INACTIVE, SUSPENDED, BANNED or DELETED, a login is    *)
(* refused and a guarded operation called with a still-unexpired token of   *)
(* that user is refused with 403.                                           *)
C33_GuardAgreesWithLogin ==
    [][\A u \in DOMAIN users :
          ( /\ users[u].email \notin ADMIN_EMAILS
            /\ users[u].status \in {"PENDING", "INACTIVE", "SUSPENDED", "BANNED", "DELETED"} )
          => /\ (Served("login") /\ resp'.email = users[u].email)
                    => (resp'.code # 200 /\ resp'.issued = {})
             /\ (Idle /\ resp'.op \in GuardedOps /\ Resolves(resp'.cred, u))
                    => resp'.code = 403
      ]_vars

(* C33, amended: for a user whose email is not admin-listed, a login is     *)
(* refused in each of the statuses PENDING, INACTIVE, SUSPENDED, BANNED and *)
(* DELETED; the guard refuses a still-unexpired token with 403 in PENDING,  *)
(* SUSPENDED, BANNED and DELETED, and accepts it in INACTIVE: the operation *)
(* runs for that user, and its profile is answered 200.                     *)
C33_GuardAgreesExceptInactive ==
    [][\A u \in DOMAIN users :
          ( /\ users[u].email \notin ADMIN_EMAILS
            /\ users[u].status \in {"PENDING", "INACTIVE", "SUSPENDED", "BANNED", "DELETED"} )
          => /\ (Served("login") /\ resp'.email = users[u].email)
                    => (resp'.code # 200 /\ resp'.issued = {})
             /\ (Idle /\ resp'.op \in GuardedOps /\ Resolves(resp'.cred, u))
                    => IF users[u].status = "INACTIVE"
                       THEN /\ resp'.caller = u
                            /\ resp'.code # 401
                            /\ resp'.op = "get_profile" => resp'.code = 200
                       ELSE resp'.code = 403
      ]_vars

(* a user that is not an admin and is INACTIVE read its profile with a      *)
(* token issued before                                                      *)
C33_Witness ==
    /\ resp.op = "get_profile"
    /\ resp.code = 200
    /\ resp.cred \in tokens
    /\ resp.caller \in DOMAIN users
    /\ users[resp.caller].status = "INACTIVE"
    /\ users[resp.caller].email \notin ADMIN_EMAILS
    /\ users[resp.caller].email = resp.cred.sub

(* C36, as claimed: get-user-by-id, list-users, status update and the       *)
(* cleanup trigger, called by an authenticated user whose email is not in   *)
(* the admin allow-list, answer 403, return no user and change nothing.     *)
C36_AdminOnlyUserManagement ==
    [][\A u \in DOMAIN users :
          ( /\ Idle
            /\ resp'.op \in {"get_user", "get_all_users", "update_user_status",
                             "trigger_cleanup_deleted_users"}
            /\ Authenticates(resp'.cred, u)
            /\ ~is_admin_email(users[u].email) )
          => /\ resp'.code = 403
             /\ resp'.body = {}
             /\ UNCHANGED store
      ]_vars

(* C32, as claimed: whatever registrations and email changes happened      *)
(* since it was issued, a token issued by login or refresh authenticates    *)
(* its bearer to get_current_user only as the user it was issued to; it     *)
(* never authenticates the bearer as another user record that later         *)
(* acquired the email in its subject.                                       *)
C32_TokenBindsToAccount ==
    [][\A v \in DOMAIN users :
          ( /\ Idle
            /\ resp'.op \in GuardedOps
            /\ resp'.cred \in tokens
            /\ Authenticates(resp'.cred, v) )
          => <<resp'.cred, v>> \in issuedTo
      ]_vars

(* C37, as claimed: whenever the sweep runs while an admin status update    *)
(* moves a DELETED user out of DELETED, in every interleaving a user that    *)
(* a step removes for good has the committed status DELETED when the         *)
(* removal is committed.                                                     *)
C37_SweepVersusReactivation ==
    [][\A u \in DOMAIN users \ DOMAIN users' : users[u].status = "DELETED"]_vars

====
